---- MODULE Spec2Model ----
(***************************************************************************)
(* A model of the static blog generator pyfiles/build_blog.py.             *)
(*                                                                         *)
(* Python strings are modelled as sequences of one-character strings, so   *)
(* that lower-casing, stripping, regular-expression substitution and       *)
(* substring tests are computed character by character as the code does.   *)
(***************************************************************************)
EXTENDS Integers, Sequences, FiniteSets, TLC

VARIABLES
    value, slugPc, slug, reslug,    \* slugify: the name, the step, the results
    record, normPc, result,         \* normalize_repo: the record, the step, the outcome
    feedfile, medPc, parsed,        \* parse_medium_posts: medium.txt, the step, the outcome
    entities, tagPc, grouped,       \* build_tags: the repos, the step, the outcome
    data,           \* public_repos.json: whether it exists, and its records
    medium_file,    \* medium.txt: whether it exists, and its text
    outdir,         \* the output directory: the file at each path
    pc,             \* where build_site is
    exc,            \* the exception that ended build_site, and the step it ended
    repos,          \* build_site's repos
    medium_posts,   \* build_site's medium_posts
    featured,       \* build_site's featured
    pinned_pages,   \* build_site's pinned_pages
    stats,          \* build_site's stats
    tags,           \* build_site's tags
    idx,            \* the position of the loop build_site is in
    log             \* what the run did to the output directory, in order

slugVars == <<value, slugPc, slug, reslug>>

normVars == <<record, normPc, result>>

medVars == <<feedfile, medPc, parsed>>

tagVars == <<entities, tagPc, grouped>>

buildVars ==
    <<data, medium_file, outdir, pc, exc, repos, medium_posts, featured, pinned_pages, stats,
      tags, idx, log>>

vars ==
    <<value, slugPc, slug, reslug, record, normPc, result, feedfile, medPc, parsed,
      entities, tagPc, grouped, data, medium_file, outdir, pc, exc, repos, medium_posts, featured,
      pinned_pages, stats, tags, idx, log>>

(***************************************************************************)
(* Bounds of the model.                                                    *)
(***************************************************************************)
MaxNameLen == 4

MaxPresent == 3

MaxRepos == 4

MaxBlocks == 3

(***************************************************************************)
(* Characters and the str methods the code uses.                           *)
(***************************************************************************)
UpperAlpha == <<"A","B","C","D","E","F","G","H","I","J","K","L","M",
                "N","O","P","Q","R","S","T","U","V","W","X","Y","Z">>

LowerAlpha == <<"a","b","c","d","e","f","g","h","i","j","k","l","m",
                "n","o","p","q","r","s","t","u","v","w","x","y","z">>

Digits == <<"0","1","2","3","4","5","6","7","8","9">>

Range(f) == {f[i] : i \in DOMAIN f}

IndexOf(seq, c) == CHOOSE i \in DOMAIN seq : seq[i] = c

\* str.lower() on one character: ASCII upper case maps to lower case, the
\* non-ASCII upper-case letter of the alphabet to its lower-case letter,
\* every other character to itself.
LowerChar(c) ==
    IF c \in Range(UpperAlpha) THEN LowerAlpha[IndexOf(UpperAlpha, c)]
    ELSE IF c = "É" THEN "é"
    ELSE c

\* str.lower()
StrLower(s) == [i \in DOMAIN s |-> LowerChar(s[i])]

\* The characters str.strip() removes when called without an argument.
Whitespace == {" ", "\t", "\n"}

RECURSIVE LStrip(_, _)
LStrip(s, chars) ==
    IF s # <<>> /\ Head(s) \in chars THEN LStrip(Tail(s), chars) ELSE s

RECURSIVE RStrip(_, _)
RStrip(s, chars) ==
    IF s # <<>> /\ s[Len(s)] \in chars
    THEN RStrip(SubSeq(s, 1, Len(s) - 1), chars)
    ELSE s

\* str.strip(chars)
StrStrip(s, chars) == RStrip(LStrip(s, chars), chars)

\* The character class [a-z0-9] of the slug pattern.
IsSlugChar(c) == c \in Range(LowerAlpha) \cup Range(Digits)

\* re.sub(r"[^a-z0-9]+", "-", s): every maximal run of characters outside
\* [a-z0-9] is replaced by one hyphen.
RECURSIVE ReSubRuns(_, _)
ReSubRuns(s, inRun) ==
    IF s = <<>> THEN <<>>
    ELSE IF IsSlugChar(Head(s)) THEN <<Head(s)>> \o ReSubRuns(Tail(s), FALSE)
    ELSE IF inRun THEN ReSubRuns(Tail(s), TRUE)
    ELSE <<"-">> \o ReSubRuns(Tail(s), TRUE)

\* The variant of slugify that trims hyphens before the substitution
\* instead of after it.
slugify_stripFirst(v) ==
    LET lowered == StrStrip(StrLower(v), Whitespace)
        trimmed == StrStrip(lowered, {"-"})
        subbed  == ReSubRuns(trimmed, FALSE)
    IN  IF subbed = <<>> THEN <<"r","e","p","o">> ELSE subbed

\* The variant of slugify that does not trim hyphens at all.
slugify_noTrim(v) ==
    LET lowered == StrStrip(StrLower(v), Whitespace)
        subbed  == ReSubRuns(lowered, FALSE)
    IN  IF subbed = <<>> THEN <<"r","e","p","o">> ELSE subbed

slugify(v) ==
    LET lowered == StrStrip(StrLower(v), Whitespace)
        subbed  == ReSubRuns(lowered, FALSE)
        trimmed == StrStrip(subbed, {"-"})
    IN  IF trimmed = <<>> THEN <<"r","e","p","o">> ELSE trimmed

(***************************************************************************)
(* Python values as they come out of json.loads.  Every value is a record  *)
(* of the same shape: t is the type, n the number (int, bool), s the text  *)
(* (str), l the items (list; for a dict, its keys in insertion order).  A   *)
(* dict has n = 1 when it has the key "name", whose value is then s.       *)
(* "absent" marks a key the raw mapping does not have.                     *)
(***************************************************************************)
Absent == [t |-> "absent", n |-> 0, s |-> <<>>, l |-> <<>>]

PyNone == [t |-> "none", n |-> 0, s |-> <<>>, l |-> <<>>]

PyBool(b) == [t |-> "bool", n |-> IF b THEN 1 ELSE 0, s |-> <<>>, l |-> <<>>]

PyInt(i) == [t |-> "int", n |-> i, s |-> <<>>, l |-> <<>>]

PyStr(str) == [t |-> "str", n |-> 0, s |-> str, l |-> <<>>]

PyList(items) == [t |-> "list", n |-> 0, s |-> <<>>, l |-> items]

PyDictNamed(name) ==
    [t |-> "dict", n |-> 1, s |-> name, l |-> <<<<"n","a","m","e">>>>]

PyDictOther(keys) == [t |-> "dict", n |-> 0, s |-> <<>>, l |-> keys]

\* raw.get(key): None for a key the mapping does not have.
Get(raw, key) == IF raw[key].t = "absent" THEN PyNone ELSE raw[key]

\* bool(v)
Truthy(v) ==
    CASE v.t = "none" -> FALSE
      [] v.t = "absent" -> FALSE
      [] v.t = "bool" -> v.n = 1
      [] v.t = "int" -> v.n # 0
      [] v.t = "str" -> v.s # <<>>
      [] v.t = "list" -> v.l # <<>>
      [] v.t = "dict" -> v.n = 1 \/ v.l # <<>>

\* v or d
Or(v, d) == IF Truthy(v) THEN v ELSE d

IsDigit(c) == c \in Range(Digits)

DigitVal(c) == IndexOf(Digits, c) - 1

\* The value of the decimal digits s[from..to].
RECURSIVE Num(_, _, _)
Num(s, from, to) ==
    IF to < from THEN 0
    ELSE Num(s, from, to - 1) * 10 + DigitVal(s[to])

AllDigits(s, from, to) == \A i \in from..to : IsDigit(s[i])

\* int(v) for the values v that `raw.get(...) or 0` can be: the outcome is
\* the exception raised ("" for none) and the number.  A text is stripped,
\* may start with a sign, and has underscores between its digits removed.
IntOf(v) ==
    CASE v.t = "int" -> [exc |-> "", n |-> v.n]
      [] v.t = "bool" -> [exc |-> "", n |-> v.n]
      [] v.t = "str" ->
            LET str    == StrStrip(v.s, Whitespace)
                signed == str # <<>> /\ str[1] \in {"+", "-"}
                body   == IF signed THEN SubSeq(str, 2, Len(str)) ELSE str
                digits == SelectSeq(body, IsDigit)
                wellFormed ==
                    /\ body # <<>>
                    /\ IsDigit(body[1]) /\ IsDigit(body[Len(body)])
                    /\ \A i \in DOMAIN body : IsDigit(body[i]) \/ body[i] = "_"
                    /\ \A i \in 1..(Len(body) - 1) : ~(body[i] = "_" /\ body[i + 1] = "_")
            IN  IF wellFormed
                THEN [exc |-> "",
                      n |-> (IF signed /\ str[1] = "-" THEN -1 ELSE 1)
                            * Num(digits, 1, Len(digits))]
                ELSE [exc |-> "ValueError", n |-> 0]
      [] OTHER -> [exc |-> "TypeError", n |-> 0]

(***************************************************************************)
(* datetime values.  nil marks None; aware tells whether the value has a   *)
(* timezone, whose offset from UTC is off minutes, offsec seconds and      *)
(* offus microseconds, all three of the sign of the offset.                *)
(***************************************************************************)
NoDate ==
    [nil |-> TRUE, y |-> 0, mo |-> 0, d |-> 0, h |-> 0, mi |-> 0, sec |-> 0,
     microsecond |-> 0, aware |-> FALSE, off |-> 0, offsec |-> 0, offus |-> 0]

\* datetime.min
DatetimeMin ==
    [nil |-> FALSE, y |-> 1, mo |-> 1, d |-> 1, h |-> 0, mi |-> 0, sec |-> 0,
     microsecond |-> 0, aware |-> FALSE, off |-> 0, offsec |-> 0, offus |-> 0]

IsLeap(y) == (y % 4 = 0 /\ y % 100 # 0) \/ y % 400 = 0

DaysInMonth(y, mo) ==
    IF mo = 2 THEN (IF IsLeap(y) THEN 29 ELSE 28)
    ELSE IF mo \in {4, 6, 9, 11} THEN 30 ELSE 31

RECURSIVE DaysBeforeMonth(_, _)
DaysBeforeMonth(y, mo) ==
    IF mo = 1 THEN 0 ELSE DaysBeforeMonth(y, mo - 1) + DaysInMonth(y, mo - 1)

\* date.toordinal(): the day's number, 0001-01-01 being day 1.
Ordinal(y, mo, d) ==
    LET p == y - 1
    IN  p * 365 + (p \div 4) - (p \div 100) + (p \div 400) + DaysBeforeMonth(y, mo) + d

\* What two datetimes of the same kind are ordered by: the day, the minute
\* of the day and the microsecond of the minute, in UTC (local for a naive
\* value).
DtKey(dt) ==
    LET sub    == (dt.sec - dt.offsec) * 1000000 + dt.microsecond - dt.offus
        minute == dt.h * 60 + dt.mi - dt.off + (sub \div 60000000)
    IN  <<Ordinal(dt.y, dt.mo, dt.d) + (minute \div 1440), minute % 1440,
          sub % 60000000>>

\* a < b for two datetimes of the same kind.
DtLess(a, b) ==
    \E ka \in {DtKey(a)}, kb \in {DtKey(b)} :
        \/ ka[1] < kb[1]
        \/ ka[1] = kb[1] /\ ka[2] < kb[2]
        \/ ka[1] = kb[1] /\ ka[2] = kb[2] /\ ka[3] < kb[3]

\* a < b raises TypeError for a naive and an aware datetime.
DtComparable(a, b) == a.aware = b.aware

\* str.replace("Z", "+00:00")
RECURSIVE ReplaceZ(_)
ReplaceZ(s) ==
    IF s = <<>> THEN <<>>
    ELSE IF Head(s) = "Z" THEN <<"+","0","0",":","0","0">> \o ReplaceZ(Tail(s))
    ELSE <<Head(s)>> \o ReplaceZ(Tail(s))

\* The character of s at position i, counted from 0 as the parser counts;
\* "" stands for the terminator after the last character.
At(s, i) == IF i + 1 \in DOMAIN s THEN s[i + 1] ELSE ""

\* Where fromisoformat looks for the character between date and time: after
\* YYYY-MM-DD (10), YYYYMMDD (8), YYYY-Www (8), YYYY-Www-D (10), YYYYWww (7)
\* or YYYYWwwD (8); -1 for a text that is none of them.  s has 7 characters
\* or more.
IsoSeparator(s) ==
    LET n == Len(s)
        stop == CHOOSE i \in 7..n :
                   /\ i = n \/ ~IsDigit(At(s, i))
                   /\ \A j \in 7..(i - 1) : IsDigit(At(s, j))
    IN  IF n = 7 THEN 7
        ELSE IF At(s, 4) = "-"
        THEN IF At(s, 5) = "W"
             THEN IF n > 8 /\ At(s, 8) = "-"
                  THEN IF n = 9 THEN -1
                       ELSE IF n > 10 /\ IsDigit(At(s, 10)) THEN 8 ELSE 10
                  ELSE 8
             ELSE 10
        ELSE IF At(s, 4) = "W"
        THEN IF stop < 9 THEN stop ELSE IF stop % 2 = 0 THEN 7 ELSE 8
        ELSE 8

\* The calendar date of day d of ISO week w of year y; ok is FALSE for a
\* week or a day the year does not have.
IsoToYmd(y, w, d) ==
    LET first   == Ordinal(y, 1, 1)
        weekday == (first + 6) % 7
        monday  == first - weekday + (IF weekday > 3 THEN 7 ELSE 0)
        ord     == monday + (w - 1) * 7 + (d - 1)
        weekOk  ==
            \/ w \in 1..52
            \/ w = 53 /\ (weekday = 3 \/ (weekday = 2 /\ IsLeap(y)))
        days    ==
            {ymd \in {y - 1, y, y + 1} \X (1..12) \X (1..31) :
                /\ ymd[3] <= DaysInMonth(ymd[1], ymd[2])
                /\ Ordinal(ymd[1], ymd[2], ymd[3]) = ord}
    IN  IF y < 1 \/ ~weekOk \/ d \notin 1..7
        THEN [ok |-> FALSE, y |-> 0, mo |-> 0, d |-> 0]
        ELSE CHOOSE r \in {[ok |-> TRUE, y |-> ymd[1], mo |-> ymd[2], d |-> ymd[3]] :
                              ymd \in days} : TRUE

\* The date in the first to characters of s: year, then month and day or
\* W, week and day, with hyphens between all of them or none.
IsoDate(s, to) ==
    LET bad  == [ok |-> FALSE, y |-> 0, mo |-> 0, d |-> 0]
        dash == At(s, 4) = "-"
        p    == IF dash THEN 5 ELSE 4
        q    == IF dash THEN p + 3 ELSE p + 2
        r    == IF dash THEN p + 4 ELSE p + 3
        Two(i) == IsDigit(At(s, i)) /\ IsDigit(At(s, i + 1))
    IN  IF ~(Two(0) /\ Two(2)) THEN bad
        ELSE IF At(s, p) = "W"
        THEN IF ~Two(p + 1) THEN bad
             ELSE IF p + 3 < to /\ ((dash /\ At(s, p + 3) # "-") \/ ~IsDigit(At(s, r)))
             THEN bad
             ELSE IsoToYmd(Num(s, 1, 4), Num(s, p + 2, p + 3),
                           IF p + 3 >= to THEN 1 ELSE DigitVal(At(s, r)))
        ELSE IF ~Two(p) \/ (dash /\ At(s, p + 2) # "-") \/ ~Two(q) THEN bad
        ELSE [ok |-> TRUE, y |-> Num(s, 1, 4), mo |-> Num(s, p + 1, p + 2),
              d |-> Num(s, q + 1, q + 2)]

\* The two-digit fields of HH[:MM[:SS]] or HH[MM[SS]] from position p of s,
\* end being where the zone starts or the text stops.  acc holds the fields
\* read so far, sep tells whether colons are in use.  rv is 0 when the text
\* is read to its end, 1 when characters are left over, 2 when a fraction
\* is to be read from position at, and negative for a malformed text.
RECURSIVE IsoFields(_, _, _, _, _)
IsoFields(s, p, end, sep, acc) ==
    IF ~(IsDigit(At(s, p)) /\ IsDigit(At(s, p + 1)))
    THEN [rv |-> -3, f |-> acc, at |-> p]
    ELSE LET c     == At(s, p + 2)
             colon == IF acc = <<>> THEN c = ":" ELSE sep
             got   == Append(acc, Num(s, p + 1, p + 2))
         IN  IF p + 3 >= end
             THEN [rv |-> IF c # "" THEN 1 ELSE 0, f |-> got, at |-> p + 3]
             ELSE IF colon /\ c = ":"
             THEN IF Len(got) = 3 THEN [rv |-> 2, f |-> got, at |-> p + 3]
                  ELSE IsoFields(s, p + 3, end, colon, got)
             ELSE IF c \in {".", ","} THEN [rv |-> 2, f |-> got, at |-> p + 3]
             ELSE IF ~colon
             THEN IF Len(got) = 3 THEN [rv |-> 2, f |-> got, at |-> p + 2]
                  ELSE IsoFields(s, p + 2, end, colon, got)
             ELSE [rv |-> -4, f |-> got, at |-> p]

\* parse_hh_mm_ss_ff: hours, minutes, seconds and microseconds of the text
\* from start to end, a field left out being 0.  A fraction keeps its first
\* six digits; rv as for IsoFields.
IsoHhMmSsFf(s, start, end) ==
    CHOOSE r \in
        {LET f   == t.f \o <<0, 0, 0>>
             k   == IF end - t.at >= 6 THEN 6 ELSE end - t.at
             ok  == \A i \in t.at..(t.at + k - 1) : IsDigit(At(s, i))
             q   == CHOOSE i \in (t.at + k)..Len(s) :
                        /\ ~IsDigit(At(s, i))
                        /\ \A j \in (t.at + k)..(i - 1) : IsDigit(At(s, j))
             pad == <<100000, 10000, 1000, 100, 10, 1>>
         IN  IF t.rv # 2
             THEN [rv |-> t.rv, h |-> f[1], mi |-> f[2], sec |-> f[3], us |-> 0]
             ELSE IF ~ok
             THEN [rv |-> -3, h |-> f[1], mi |-> f[2], sec |-> f[3], us |-> 0]
             ELSE [rv |-> IF At(s, q) # "" THEN 1 ELSE 0,
                   h |-> f[1], mi |-> f[2], sec |-> f[3],
                   us |-> Num(s, t.at + 1, t.at + k) * pad[k]] :
            t \in {IsoFields(s, start, end, FALSE, <<>>)}} : TRUE

\* parse_isoformat_time on s from position start: the time up to the first
\* of Z, + and -, then the zone.  Characters left over after the time are an
\* error only when no zone follows.  offs and offus are the seconds and the
\* microseconds of the offset, both with its sign.
IsoTime(s, start) ==
    LET n    == Len(s)
        bad  == [ok |-> FALSE, h |-> 0, mi |-> 0, sec |-> 0, us |-> 0,
                 aware |-> FALSE, offs |-> 0, offus |-> 0]
        tz   == CHOOSE i \in start..n :
                    /\ i = n \/ At(s, i) \in {"Z", "+", "-"}
                    /\ \A j \in start..(i - 1) : At(s, j) \notin {"Z", "+", "-"}
    IN  CHOOSE r \in
            {IF t.rv < 0 THEN bad
             ELSE IF tz >= n
             THEN IF t.rv = 1 THEN bad
                  ELSE [ok |-> TRUE, h |-> t.h, mi |-> t.mi, sec |-> t.sec,
                        us |-> t.us, aware |-> FALSE, offs |-> 0, offus |-> 0]
             ELSE IF At(s, tz) = "Z"
             THEN IF tz + 1 # n THEN bad
                  ELSE [ok |-> TRUE, h |-> t.h, mi |-> t.mi, sec |-> t.sec,
                        us |-> t.us, aware |-> TRUE, offs |-> 0, offus |-> 0]
             ELSE LET z    == IsoHhMmSsFf(s, tz + 1, n)
                      sign == IF At(s, tz) = "-" THEN -1 ELSE 1
                  IN  IF z.rv # 0 THEN bad
                      ELSE [ok |-> TRUE, h |-> t.h, mi |-> t.mi, sec |-> t.sec,
                            us |-> t.us, aware |-> TRUE,
                            offs |-> sign * (z.h * 3600 + z.mi * 60 + z.sec),
                            offus |-> sign * z.us] :
                t \in {IsoHhMmSsFf(s, start, tz)}} : TRUE

\* The minutes, seconds and microseconds of an offset of offs seconds and
\* offus microseconds.
OffsetParts(offs, offus) ==
    LET sign == IF offs < 0 THEN -1 ELSE 1
        size == sign * offs
    IN  [off |-> sign * (size \div 60), offsec |-> sign * (size % 60),
         offus |-> offus]

\* datetime.fromisoformat of Python 3.11; NoDate stands for the ValueError
\* of a text that is no ISO 8601 date, of a field out of its range, and of
\* an offset of 24 hours or more.  An offset of 0 seconds is UTC, its
\* microseconds dropped.
FromIsoFormat(s) ==
    IF Len(s) < 7 THEN NoDate
    ELSE CHOOSE dt \in
            {IF loc < 0 THEN NoDate
             ELSE CHOOSE r \in
                    {LET zone == OffsetParts(time.offs,
                                             IF time.offs = 0 THEN 0 ELSE time.offus)
                         fieldsOk ==
                             /\ date.ok /\ time.ok
                             /\ date.y \in 1..9999 /\ date.mo \in 1..12
                             /\ date.d >= 1 /\ date.d <= DaysInMonth(date.y, date.mo)
                             /\ time.h < 24 /\ time.mi < 60 /\ time.sec < 60
                             /\ time.offs > -86400 /\ time.offs < 86400
                     IN  IF ~fieldsOk THEN NoDate
                         ELSE [nil |-> FALSE, y |-> date.y, mo |-> date.mo,
                               d |-> date.d, h |-> time.h, mi |-> time.mi,
                               sec |-> time.sec, microsecond |-> time.us,
                               aware |-> time.aware, off |-> zone.off,
                               offsec |-> zone.offsec, offus |-> zone.offus] :
                        date \in {IsoDate(s, loc)},
                        time \in {IF Len(s) > loc THEN IsoTime(s, loc + 1)
                                  ELSE [ok |-> TRUE, h |-> 0, mi |-> 0, sec |-> 0,
                                        us |-> 0, aware |-> FALSE, offs |-> 0,
                                        offus |-> 0]}} : TRUE :
                loc \in {IsoSeparator(s)}} : TRUE

\* parse_date: the outcome is the exception raised ("" for none) and the
\* datetime (NoDate for None).
parse_date(v) ==
    IF ~Truthy(v) THEN [exc |-> "", dt |-> NoDate]
    ELSE IF v.t # "str" THEN [exc |-> "AttributeError", dt |-> NoDate]
    ELSE [exc |-> "", dt |-> FromIsoFormat(ReplaceZ(v.s))]

MonthAbbr ==
    <<<<"J","a","n">>, <<"F","e","b">>, <<"M","a","r">>, <<"A","p","r">>,
      <<"M","a","y">>, <<"J","u","n">>, <<"J","u","l">>, <<"A","u","g">>,
      <<"S","e","p">>, <<"O","c","t">>, <<"N","o","v">>, <<"D","e","c">>>>

\* The decimal digits of i, with zeros before them up to the width w.
RECURSIVE Decimal(_, _)
Decimal(i, w) ==
    IF w <= 1 /\ i < 10 THEN <<Digits[i + 1]>>
    ELSE Decimal(i \div 10, IF w <= 1 THEN 1 ELSE w - 1) \o <<Digits[(i % 10) + 1]>>

\* fmt in RepoPost.__post_init__: dt.strftime("%b %d, %Y") if dt else "n/a".
\* %d has two digits; %Y has the digits of the year, without zeros before.
fmt(dt) ==
    IF dt.nil THEN <<"n","/","a">>
    ELSE MonthAbbr[dt.mo] \o <<" ">> \o Decimal(dt.d, 2) \o <<",", " ">>
         \o Decimal(dt.y, 1)

(***************************************************************************)
(* RepoPost and normalize_repo.                                            *)
(***************************************************************************)
\* sub in s
Contains(s, sub) ==
    \E i \in 1..(Len(s) - Len(sub) + 1) : SubSeq(s, i, i + Len(sub) - 1) = sub

\* The texts of planned_changes.
PlanShared ==
    <<"K","e","e","p"," ","t","h","i","s"," ","f","o","r","k"," ","c","l",
      "o","s","e"," ","t","o"," ","u","p","s","t","r","e","a","m"," ","w",
      "h","i","l","e"," ","t","a","i","l","o","r","i","n","g"," ","i","t",
      " ","f","o","r"," ","m","y"," ","w","o","r","k","f","l","o","w","s",
      "."," ","D","o","c","u","m","e","n","t"," ","s","e","t","u","p",",",
      " ","a","d","d"," ","C","I",","," ","a","n","d"," ","k","e","e","p",
      " ","d","e","p","e","n","d","e","n","c","i","e","s"," ","u","p"," ",
      "t","o"," ","d","a","t","e",".">>

PlanPython ==
    <<" ","A","d","d"," ","t","y","p","e"," ","h","i","n","t","s",","," ",
      "t","i","g","h","t","e","n"," ","l","i","n","t","i","n","g"," ","(",
      "r","u","f","f","/","b","l","a","c","k",")",","," ","a","n","d"," ",
      "f","l","e","s","h"," ","o","u","t"," ","t","e","s","t","s"," ","b",
      "e","f","o","r","e"," ","f","e","a","t","u","r","e"," ","w","o","r",
      "k",".">>

PlanJs ==
    <<" ","A","d","d"," ","l","i","n","t","i","n","g","/","f","o","r","m",
      "a","t","t","i","n","g",","," ","w","i","r","e"," ","a"," ","m","i",
      "n","i","m","a","l"," ","t","e","s","t"," ","r","u","n","n","e","r",
      ","," ","a","n","d"," ","i","m","p","r","o","v","e"," ","D","X"," ",
      "d","o","c","s",".">>

PlanC ==
    <<" ","A","d","d"," ","f","o","r","m","a","t","t","i","n","g","/","t",
      "o","o","l","i","n","g",","," ","i","m","p","r","o","v","e"," ","R",
      "E","A","D","M","E"," ","b","u","i","l","d"," ","s","t","e","p","s",
      ","," ","a","n","d"," ","h","a","r","d","e","n"," ","w","i","t","h",
      " ","s","m","a","l","l"," ","u","n","i","t"," ","t","e","s","t","s",
      ".">>

PlanGeneric ==
    <<" ","I","m","p","r","o","v","e"," ","d","o","c","s",","," ","a","d",
      "d"," ","C","I"," ","c","o","v","e","r","a","g","e",","," ","a","n",
      "d"," ","s","h","i","p"," ","s","m","a","l","l"," ","q","u","a","l",
      "i","t","y","-","o","f","-","l","i","f","e"," ","f","i","x","e","s",
      ".">>

\* planned_changes reads only the repo's language.  The outcome is the
\* exception raised ("" for none) and the text.
planned_changes(language) ==
    LET l == Or(language, PyStr(<<"p","r","o","j","e","c","t">>))
    IN  IF l.t # "str" THEN [exc |-> "AttributeError", text |-> <<>>]
        ELSE
            LET lang == StrLower(l.s)
                extra ==
                    IF Contains(lang, <<"p","y","t","h","o","n">>) THEN PlanPython
                    ELSE IF \/ Contains(lang, <<"j","s">>)
                            \/ Contains(lang, <<"t","y","p","e","s","c","r","i","p","t">>)
                         THEN PlanJs
                    ELSE IF lang \in {<<"c">>, <<"c","p","p">>, <<"c","+","+">>}
                         THEN PlanC
                    ELSE PlanGeneric
            IN  [exc |-> "", text |-> PlanShared \o extra]

\* The variant of _build_tags that puts the fork tag first.
_build_tags_forkFirst(language, fork, topics) ==
    LET langTag == IF Truthy(language) THEN <<language>> ELSE <<>>
        forkTag == IF fork THEN <<PyStr(<<"f","o","r","k">>)>> ELSE <<>>
        more    == Or(topics, PyList(<<>>))
    IN  CASE more.t = "list" ->
                [exc |-> "",
                 tags |-> forkTag \o langTag
                          \o [i \in DOMAIN more.l |-> PyStr(more.l[i])]]
          [] more.t = "str" ->
                [exc |-> "",
                 tags |-> forkTag \o langTag
                          \o [i \in DOMAIN more.s |-> PyStr(<<more.s[i]>>)]]
          [] more.t = "dict" ->
                [exc |-> "",
                 tags |-> forkTag \o langTag
                          \o [i \in DOMAIN more.l |-> PyStr(more.l[i])]]
          [] more.t \in {"int", "bool"} -> [exc |-> "TypeError", tags |-> <<>>]

\* RepoPost._build_tags: the outcome is the exception raised ("" for none)
\* and the list of tags, each a Python value.  topics is what
\* `raw.get("topics") or []` gave: a list of strings, a string (extend
\* then appends its characters one by one), a dict (extend appends its
\* keys) or a number (not iterable).
_build_tags(language, fork, topics) ==
    LET langTag == IF Truthy(language) THEN <<language>> ELSE <<>>
        forkTag == IF fork THEN <<PyStr(<<"f","o","r","k">>)>> ELSE <<>>
        more    == Or(topics, PyList(<<>>))
    IN  CASE more.t = "list" ->
                [exc |-> "",
                 tags |-> langTag \o forkTag
                          \o [i \in DOMAIN more.l |-> PyStr(more.l[i])]]
          [] more.t = "str" ->
                [exc |-> "",
                 tags |-> langTag \o forkTag
                          \o [i \in DOMAIN more.s |-> PyStr(<<more.s[i]>>)]]
          [] more.t = "dict" ->
                [exc |-> "",
                 tags |-> langTag \o forkTag
                          \o [i \in DOMAIN more.l |-> PyStr(more.l[i])]]
          [] more.t \in {"int", "bool"} -> [exc |-> "TypeError", tags |-> <<>>]

SummaryMax == 180

SummaryKeep == 177

\* The first exception of a sequence of outcomes, "" when there is none.
FirstExc(excs) ==
    IF \A i \in DOMAIN excs : excs[i] = "" THEN ""
    ELSE excs[CHOOSE i \in DOMAIN excs :
                 excs[i] # "" /\ \A j \in 1..(i - 1) : excs[j] = ""]

\* What stands for the RepoPost when normalize_repo raises.
NoRepo == [slug |-> <<>>]

\* normalize_repo: the outcome is the exception raised ("" for none) and the
\* RepoPost, with the attributes __post_init__ adds.
normalize_repo(raw) ==
  CHOOSE out \in {
    LET name        == Or(Get(raw, "name"), PyStr(<<"u","n","t","i","t","l","e","d">>))
        descRaw     == Or(Get(raw, "description"),
                          PyStr(<<"N","o"," ","d","e","s","c","r","i","p","t","i","o","n",
                                  " ","y","e","t",".">>))
        descExc     == IF descRaw.t = "str" THEN "" ELSE "AttributeError"
        description == StrStrip(descRaw.s, Whitespace)
        summary     == IF Len(description) <= SummaryMax THEN description
                       ELSE SubSeq(description, 1, SummaryKeep) \o <<".", ".", ".">>
        nameExc     == IF name.t = "str" THEN "" ELSE "AttributeError"
        language    == Or(Get(raw, "language"),
                          PyStr(<<"U","n","s","p","e","c","i","f","i","e","d">>))
        topics      == Or(Get(raw, "topics"), PyList(<<>>))
        licRaw      == Get(raw, "license")
        licExc      == IF Truthy(licRaw) /\ licRaw.t # "dict" THEN "AttributeError" ELSE ""
        license     == IF Truthy(licRaw) /\ licRaw.n = 1 THEN PyStr(licRaw.s) ELSE PyNone
        fork        == Truthy(Get(raw, "fork"))
        stars       == IntOf(Or(Get(raw, "stargazers_count"), PyInt(0)))
        forks       == IntOf(Or(Get(raw, "forks_count"), PyInt(0)))
        watchers    == IntOf(Or(Get(raw, "watchers_count"), PyInt(0)))
        built       == _build_tags(language, fork, topics)
        initExc     == FirstExc(<<descExc, nameExc, licExc, stars.exc, forks.exc,
                                  watchers.exc, created.exc, updated.exc, pushed.exc,
                                  built.exc>>)
        planned     == IF fork /\ initExc = "" THEN planned_changes(language)
                       ELSE [exc |-> "", text |-> <<>>]
        raised      == FirstExc(<<initExc, planned.exc>>)
    IN  IF raised # "" THEN [exc |-> raised, repo |-> NoRepo]
        ELSE
          [exc |-> "",
           repo |->
             [slug |-> slugify(name.s),
              name |-> name.s,
              full_name |-> Or(Get(raw, "full_name"), name),
              description |-> description,
              summary |-> summary,
              html_url |-> Or(Get(raw, "html_url"), PyStr(<<>>)),
              homepage |-> Or(Get(raw, "homepage"), PyNone),
              language |-> language,
              topics |-> topics,
              license |-> license,
              fork |-> fork,
              default_branch |-> Or(Get(raw, "default_branch"), PyStr(<<"m","a","i","n">>)),
              stargazers_count |-> stars.n,
              forks_count |-> forks.n,
              watchers_count |-> watchers.n,
              created_at |-> created.dt,
              updated_at |-> updated.dt,
              pushed_at |-> pushed.dt,
              plan |-> IF fork THEN PyStr(planned.text) ELSE PyNone,
              created_label |-> fmt(created.dt),
              updated_label |-> fmt(updated.dt),
              pushed_label |-> fmt(pushed.dt),
              sort_key |-> IF ~pushed.dt.nil THEN pushed.dt
                           ELSE IF ~updated.dt.nil THEN updated.dt
                           ELSE IF ~created.dt.nil THEN created.dt
                           ELSE DatetimeMin,
              tags |-> built.tags]] :
    created \in {parse_date(Get(raw, "created_at"))},
    updated \in {parse_date(Get(raw, "updated_at"))},
    pushed  \in {parse_date(Get(raw, "pushed_at"))} } : TRUE

(***************************************************************************)
(* Sorting, tag aggregation and the home page's data.                      *)
(***************************************************************************)
\* Where list.sort(reverse=True) puts the item x among the items already
\* placed (perm, a sequence of indexes): before the first one less than
\* it, so that equal items keep their order.  lt[i][j] tells whether item
\* i is less than item j.
RECURSIVE InsertDesc(_, _, _)
InsertDesc(perm, x, lt) ==
    IF perm = <<>> THEN <<x>>
    ELSE IF lt[Head(perm)][x] THEN <<x>> \o perm
    ELSE <<Head(perm)>> \o InsertDesc(Tail(perm), x, lt)

\* Where list.sort() puts the item x: before the first one it is less than.
RECURSIVE InsertAsc(_, _, _)
InsertAsc(perm, x, lt) ==
    IF perm = <<>> THEN <<x>>
    ELSE IF lt[x][Head(perm)] THEN <<x>> \o perm
    ELSE <<Head(perm)>> \o InsertAsc(Tail(perm), x, lt)

\* The order (a sequence of indexes) a stable sort gives n items.
RECURSIVE SortPerm(_, _, _)
SortPerm(n, lt, reverse) ==
    IF n = 0 THEN <<>>
    ELSE IF reverse THEN InsertDesc(SortPerm(n - 1, lt, reverse), n, lt)
    ELSE InsertAsc(SortPerm(n - 1, lt, reverse), n, lt)

Permute(items, perm) == [i \in DOMAIN perm |-> items[perm[i]]]

\* Sorting by sort_key compares datetimes, which raises TypeError as soon
\* as a naive and an aware one are among the keys of two or more items.
SortKeysComparable(items) ==
    \A i, j \in DOMAIN items : DtComparable(items[i].sort_key, items[j].sort_key)

\* The variant of the sort by sort_key that puts the oldest first.
SortedBySortKey_ascending(items) ==
    LET lt == [i \in DOMAIN items |->
                 [j \in DOMAIN items |-> DtLess(items[i].sort_key, items[j].sort_key)]]
    IN  Permute(items, SortPerm(Len(items), lt, FALSE))

\* sorted(items, key=lambda r: r.sort_key, reverse=True), for comparable keys.
SortedBySortKey(items) ==
    LET lt == [i \in DOMAIN items |->
                 [j \in DOMAIN items |-> DtLess(items[i].sort_key, items[j].sort_key)]]
    IN  Permute(items, SortPerm(Len(items), lt, TRUE))

\* list.reverse()
Reverse(l) == [i \in DOMAIN l |-> l[Len(l) + 1 - i]]

\* count_run of list.sort on the items a, two or more: the length n of the
\* run the list starts with, whether the run is strictly descending, and
\* whether comparing an item with the one before it raised.
count_run(a) ==
    LET Lt(i) == DtLess(a[i].sort_key, a[i - 1].sort_key)
        Ok(i) == DtComparable(a[i].sort_key, a[i - 1].sort_key)
        desc  == Ok(2) /\ Lt(2)
        n     == CHOOSE k \in 2..Len(a) :
                    /\ k = Len(a) \/ ~Ok(k + 1) \/ Lt(k + 1) # desc
                    /\ \A j \in 3..k : Ok(j) /\ Lt(j) = desc
    IN  IF ~Ok(2) THEN [exc |-> TRUE, n |-> 2, descending |-> FALSE]
        ELSE [exc |-> n < Len(a) /\ ~Ok(n + 1), n |-> n, descending |-> desc]

\* The binary search of binarysort: where, counted from 0, pivot goes among
\* the sorted items of a from l to r; -1 when a comparison raises.
RECURSIVE binary_search(_, _, _, _)
binary_search(a, pivot, l, r) ==
    IF l >= r THEN l
    ELSE LET p == l + ((r - l) \div 2)
         IN  IF ~DtComparable(pivot.sort_key, a[p + 1].sort_key) THEN -1
             ELSE IF DtLess(pivot.sort_key, a[p + 1].sort_key)
             THEN binary_search(a, pivot, l, p)
             ELSE binary_search(a, pivot, p + 1, r)

\* binarysort of list.sort: the items of a from start on are put one by
\* one where they belong among the sorted items before them.  The outcome
\* is the list when all are placed, or when a comparison raises.
RECURSIVE binarysort(_, _)
binarysort(a, start) ==
    IF start > Len(a) THEN [exc |-> FALSE, items |-> a]
    ELSE CHOOSE done \in
            {IF l < 0 THEN [exc |-> TRUE, items |-> a]
             ELSE CHOOSE rest \in
                    {binarysort(placed, start + 1) :
                        placed \in {SubSeq(a, 1, l) \o <<a[start]>>
                                    \o SubSeq(a, l + 1, start - 1)
                                    \o SubSeq(a, start + 1, Len(a))}} : TRUE :
                l \in {binary_search(a, a[start], 0, start - 1)}} : TRUE

\* items.sort(key=lambda r: r.sort_key, reverse=True) as CPython sorts a
\* list of fewer than 64 items: the list is reversed, its first run is
\* found and made ascending, the other items are placed by binarysort, and
\* the list is reversed again, also when a comparison raised.  The outcome
\* tells whether one raised and the list as it is left.
list_sort(items) ==
    IF Len(items) < 2 THEN [exc |-> FALSE, items |-> items]
    ELSE CHOOSE done \in
            {IF run.exc THEN [exc |-> TRUE, items |-> items]
             ELSE CHOOSE left \in
                    {[exc |-> sorted.exc, items |-> Reverse(sorted.items)] :
                        sorted \in
                            {binarysort(IF run.descending
                                        THEN Reverse(SubSeq(a, 1, run.n))
                                             \o SubSeq(a, run.n + 1, Len(a))
                                        ELSE a,
                                        run.n + 1)}} : TRUE :
                a \in {Reverse(items)}, run \in {count_run(Reverse(items))}} : TRUE

\* The variant of the sort by stars that sorts by sort_key alone.
SortedByStars_recencyOnly(items) == SortedBySortKey(items)

\* sorted(repos, key=lambda r: (r.stars, r.sort_key), reverse=True), for
\* comparable keys.
SortedByStars(items) ==
    LET lt == [i \in DOMAIN items |->
                 [j \in DOMAIN items |->
                    \/ items[i].stargazers_count < items[j].stargazers_count
                    \/ /\ items[i].stargazers_count = items[j].stargazers_count
                       /\ DtLess(items[i].sort_key, items[j].sort_key)]]
    IN  Permute(items, SortPerm(Len(items), lt, TRUE))

\* The characters in the order of their code points.
CodePoints ==
    <<"\t", "\n", " ", "#", "+", "-", ".", "/">> \o Digits \o <<":">> \o UpperAlpha
    \o <<"_">> \o LowerAlpha \o <<"É", "é">>

\* a < b for two strings.
RECURSIVE StrLess(_, _)
StrLess(a, b) ==
    IF b = <<>> THEN FALSE
    ELSE IF a = <<>> THEN TRUE
    ELSE IF Head(a) = Head(b) THEN StrLess(Tail(a), Tail(b))
    ELSE IndexOf(CodePoints, Head(a)) < IndexOf(CodePoints, Head(b))

\* hash(v) raises TypeError for a list and for a dict.
Hashable(v) == v.t \notin {"list", "dict"}

\* What a set or a dict takes a value for: True is 1 and False is 0.
Hashed(v) == IF v.t = "bool" THEN PyInt(v.n) ELSE v

RECURSIVE Flatten(_)
Flatten(ss) == IF ss = <<>> THEN <<>> ELSE Head(ss) \o Flatten(Tail(ss))

\* tag_map[tag] in build_tags: going through the repos in order, a repo is
\* appended once for every occurrence of the tag in its tags.
TagMembers(rs, tag) ==
    Flatten([i \in DOMAIN rs |->
               [k \in 1..Cardinality({j \in DOMAIN rs[i].tags :
                                          Hashed(rs[i].tags[j]) = Hashed(tag)}) |-> rs[i]]])

\* What making the entry of a tag raises: slugify raises AttributeError
\* for a name that is not a string, sorted raises TypeError for members
\* whose sort keys do not compare.
TagExc(rs, name) ==
    IF name.t # "str" THEN "AttributeError"
    ELSE IF ~SortKeysComparable(TagMembers(rs, name)) THEN "TypeError"
    ELSE ""

\* build_tags: the outcome is the exception raised ("" for none) and the
\* list of tags.  tag_map keeps the tags in the order they first occur, a
\* tag equal to an earlier one going under the earlier one; setdefault
\* raises TypeError for a tag that cannot be hashed, before any entry is
\* made.
build_tags(rs) ==
    CHOOSE out \in
        {IF \E i \in DOMAIN all : ~Hashable(all[i])
         THEN [exc |-> "TypeError", tags |-> <<>>]
         ELSE CHOOSE built \in
                {LET lt    == [i \in DOMAIN names |->
                                [j \in DOMAIN names |->
                                   names[i].t = "str" /\ names[j].t = "str"
                                   /\ StrLess(StrLower(names[i].s), StrLower(names[j].s))]]
                     made  == [i \in DOMAIN names |->
                                [name  |-> names[i],
                                 slug  |-> slugify(names[i].s),
                                 count |-> Len(TagMembers(rs, names[i])),
                                 repos |-> SortedBySortKey(TagMembers(rs, names[i]))]]
                     raised == FirstExc([i \in DOMAIN names |-> TagExc(rs, names[i])])
                 IN  IF raised # "" THEN [exc |-> raised, tags |-> <<>>]
                     ELSE [exc |-> "",
                           tags |-> Permute(made, SortPerm(Len(names), lt, FALSE))] :
                    names \in
                        {[k \in DOMAIN first |-> all[first[k]]] :
                            first \in
                                {SelectSeq([i \in DOMAIN all |-> i], LAMBDA i :
                                    \A j \in 1..(i - 1) :
                                        Hashed(all[j]) # Hashed(all[i]))}}} : TRUE :
            all \in {Flatten([i \in DOMAIN rs |-> rs[i].tags])}} : TRUE

\* pinned_order in build_site.
pinned_order ==
    <<<<"D","a","t","a","-","S","c","i","e","n","c","e","-","P","r","o","j","e","c","t","s">>, <<"K","i","t","e","G","a","m","e">>,
      <<"w","e","b","_","c","r","a","w","l","e","r">>, <<"R","A","G">>>>

\* The names PINNED_CONTENT has a page for.
PINNED_CONTENT == {<<"R","A","G">>, <<"D","a","t","a","-","S","c","i","e","n","c","e","-","P","r","o","j","e","c","t","s">>, <<"K","i","t","e","G","a","m","e">>, <<"w","e","b","_","c","r","a","w","l","e","r">>}

\* PINNED_CONTENT[name]["title"]
PinnedTitle(name) ==
    CASE name = <<"R","A","G">> ->
            <<"R","A","G"," ","n","o","t","e","b","o","o","k"," ","d","e","e","p"," ","d","i","v","e">>
      [] name = <<"D","a","t","a","-","S","c","i","e","n","c","e","-","P","r","o","j","e","c","t","s">> ->
            <<"D","a","t","a"," ","S","c","i","e","n","c","e"," ","P","r","o","j","e","c","t","s"," ","n","o","t","e","b","o","o","k"," ","s","e","t">>
      [] name = <<"K","i","t","e","G","a","m","e">> ->
            <<"K","i","t","e","G","a","m","e"," ","(","p","i","v","o","t"," ","f","r","o","m"," ","B","e","a","c","h"," ","B","u","g","g","y",")">>
      [] name = <<"w","e","b","_","c","r","a","w","l","e","r">> ->
            <<"A","s","y","n","c"," ","W","e","b"," ","C","r","a","w","l","e","r"," ","A","P","I">>

\* pinned_lookup[name]: of the repos of that name, the last one.
PinnedLookup(rs, name) ==
    rs[CHOOSE i \in DOMAIN rs :
            /\ rs[i].name = name
            /\ \A j \in DOMAIN rs : rs[j].name = name => j <= i]

FeaturedMax == 3

\* featured in build_site.
Featured(rs) ==
    LET present == SelectSeq(pinned_order,
                             LAMBDA name : \E i \in DOMAIN rs : rs[i].name = name)
        pinned  == [i \in DOMAIN present |-> PinnedLookup(rs, present[i])]
        byStars == SortedByStars(rs)
    IN  IF pinned # <<>> THEN pinned
        ELSE SubSeq(byStars, 1, IF Len(byStars) < FeaturedMax THEN Len(byStars)
                                ELSE FeaturedMax)

\* pinned_pages in build_site: the repos PINNED_CONTENT has a page for.
PinnedPages(rs) == SelectSeq(rs, LAMBDA r : r.name \in PINNED_CONTENT)

\* stats in build_site: the outcome is the exception raised ("" for none)
\* and the stats.  The languages are counted as the set of them has them,
\* which raises TypeError for a language that cannot be hashed.
Stats(rs) ==
    LET spoken == {k \in DOMAIN rs : Truthy(rs[k].language)}
    IN  [exc |-> IF \E k \in spoken : ~Hashable(rs[k].language)
                 THEN "TypeError" ELSE "",
         stats |->
            [total |-> Len(rs),
             forks |-> Cardinality({i \in DOMAIN rs : rs[i].fork}),
             languages |-> Cardinality({Hashed(rs[i].language) : i \in spoken}),
             last_pushed |-> IF rs # <<>> THEN rs[1].pushed_label
                             ELSE <<"n","/","a">>]]

\* The keys normalize_repo reads.
Keys ==
    <<"name", "full_name", "description", "html_url", "homepage", "language",
      "topics", "license", "fork", "default_branch", "stargazers_count",
      "forks_count", "watchers_count", "created_at", "updated_at", "pushed_at">>

\* The raw record without any key.
EmptyRaw == [k \in Range(Keys) |-> Absent]

(***************************************************************************)
(* The output directory.  A path is a directory of the output tree and,    *)
(* below it, a slug or a file name ("" for the directory's own index      *)
(* page).  A file records the run that wrote it (gen: 0 for an earlier    *)
(* run, 1 for this one), the template and the context it was rendered     *)
(* from; generated_at, the time of the run, is left out of the context.    *)
(***************************************************************************)
\* build_site has not raised.
NoExc == [type |-> "", at |-> ""]

Path(dir, sub) == [dir |-> dir, sub |-> sub]

NoStats == [total |-> 0, forks |-> 0, languages |-> 0, last_pushed |-> <<>>]

File(gen, template, title, ctx) ==
    [gen |-> gen, template |-> template, title |-> title,
     posts |-> ctx.posts, featured |-> ctx.featured, stats |-> ctx.stats,
     tags |-> ctx.tags, repo |-> ctx.repo, medium_posts |-> ctx.medium_posts,
     pinned_map |-> ctx.pinned_map]

EmptyCtx ==
    [posts |-> <<>>, featured |-> <<>>, stats |-> NoStats, tags |-> <<>>,
     repo |-> <<>>, medium_posts |-> <<>>, pinned_map |-> {}]

\* A file copied from the assets directory, or left by an earlier run.
PlainFile(gen) == File(gen, "", <<>>, EmptyCtx)

EmptyDir == [p \in {} |-> PlainFile(0)]

\* The directory with the file written at the path.
WriteFile(dir, path, file) ==
    [p \in DOMAIN dir \cup {path} |-> IF p = path THEN file ELSE dir[p]]

\* The files of the assets directory.
ASSETS_SRC == {<<"s",".","c","s","s">>, <<"a",".","j","s">>}

\* What an earlier run left in the output directory.
StaleDir ==
    [p \in {Path("", <<>>), Path("posts", <<"o","l","d">>), Path("tags", <<"r","u","s","t">>),
            Path("assets", <<"o",".","c","s","s">>)} |-> PlainFile(0)]

\* The variant of ensure_output_dir that keeps an existing directory.
ensure_output_dir_keep(dir) == dir

\* ensure_output_dir: the directory is removed with all it holds, and made
\* again.
ensure_output_dir(dir) == EmptyDir

\* copy_assets: the assets directory is copied to assets/ of the output.
copy_assets(dir) ==
    [p \in {q \in DOMAIN dir : q.dir # "assets"}
           \cup {Path("assets", f) : f \in ASSETS_SRC} |->
        IF p.dir = "assets" THEN PlainFile(1) ELSE dir[p]]

\* pinned_map in build_site.
PinnedMap(pages) == {<<pages[i].name, pages[i].slug>> : i \in DOMAIN pages}

(***************************************************************************)
(* MediumPost and parse_medium_posts.  The feed file medium.txt is a text; *)
(* None and "" are both written <<>> for title, link and date, which the   *)
(* code only tests for truth.                                              *)
(***************************************************************************)
\* s has prefix at position from.
StartsWithAt(s, from, prefix) ==
    /\ from + Len(prefix) - 1 <= Len(s)
    /\ \A i \in DOMAIN prefix : s[from + i - 1] = prefix[i]

\* Whether sep occurs in s from position i on.
Occurs(s, sep, i) == \E k \in i..Len(s) : StartsWithAt(s, k, sep)

\* The first position from i on where sep occurs in s.
FindFrom(s, sep, i) ==
    CHOOSE k \in i..Len(s) :
        StartsWithAt(s, k, sep) /\ \A j \in i..(k - 1) : ~StartsWithAt(s, j, sep)

\* str.split(sep) of s from position start on.
RECURSIVE SplitFrom(_, _, _)
SplitFrom(s, sep, start) ==
    IF ~Occurs(s, sep, start) THEN <<SubSeq(s, start, Len(s))>>
    ELSE CHOOSE pieces \in
            {<<SubSeq(s, start, at - 1)>> \o SplitFrom(s, sep, at + Len(sep)) :
                at \in {FindFrom(s, sep, start)}} : TRUE

\* str.split(sep)
Split(s, sep) == SplitFrom(s, sep, 1)

\* str.splitlines() of a text whose line ends are "\n".
SplitLines(s) ==
    LET parts == Split(s, <<"\n">>)
    IN  IF parts[Len(parts)] = <<>> THEN SubSeq(parts, 1, Len(parts) - 1) ELSE parts

\* The items of a sequence that are not empty, in order.
NonEmpty(ss) == SelectSeq(ss, LAMBDA x : x # <<>>)

\* line.replace(prefix, "", 1).strip() for a line that starts with prefix.
FieldText(line, prefix) ==
    StrStrip(SubSeq(line, Len(prefix) + 1, Len(line)), Whitespace)

TitlePrefix == <<"T","i","t","l","e",":">>
LinkPrefix == <<"L","i","n","k",":">>
TagsPrefix == <<"T","a","g","s",":">>

\* The characters t.strip(" ' \"") removes.
TagStrip == {" ", "'", "\""}

\* The tags a Tags: line sets, for a line that sets them.
TagList(raw_tags) ==
    LET inner == StrStrip(StrStrip(raw_tags, Whitespace), {"[", "]"})
        items == Split(inner, <<",">>)
    IN  NonEmpty([i \in DOMAIN items |-> StrStrip(items[i], TagStrip)])

\* Whether a Tags: line sets the tags: its text is neither empty nor "none".
SetsTags(raw_tags) ==
    raw_tags # <<>> /\ StrLower(raw_tags) # <<"n","o","n","e">>

\* The last line of the block that starts with prefix, 0 if there is none.
LastWith(lines, prefix) ==
    LET found == {i \in DOMAIN lines : StartsWithAt(lines[i], 1, prefix)}
    IN  IF found = {} THEN 0 ELSE CHOOSE i \in found : \A j \in found : j <= i

\* The text of the field the block's lines leave, <<>> without such a line.
FieldOf(lines, prefix) ==
    LET i == LastWith(lines, prefix)
    IN  IF i = 0 THEN <<>> ELSE FieldText(lines[i], prefix)

\* The tags the block's lines leave: those of the last Tags: line that
\* sets them.
TagsOf(lines) ==
    LET setting == {i \in DOMAIN lines :
                      /\ StartsWithAt(lines[i], 1, TagsPrefix)
                      /\ SetsTags(FieldText(lines[i], TagsPrefix))}
    IN  IF setting = {} THEN <<>>
        ELSE TagList(FieldText(lines[CHOOSE i \in setting : \A j \in setting : j <= i],
                               TagsPrefix))

DayAbbr ==
    {<<"m","o","n">>, <<"t","u","e">>, <<"w","e","d">>, <<"t","h","u">>,
     <<"f","r","i">>, <<"s","a","t">>, <<"s","u","n">>}

\* The number of the month whose abbreviation s is, in any case; 0 if none.
MonthOf(s) ==
    LET found == {m \in DOMAIN MonthAbbr : StrLower(MonthAbbr[m]) = StrLower(s)}
    IN  IF found = {} THEN 0 ELSE CHOOSE m \in found : TRUE

\* One or two digits.
ShortNumber(s) == Len(s) \in {1, 2} /\ AllDigits(s, 1, Len(s))

\* %z: Z, or a sign, two digits of hours and two of minutes, then maybe two
\* of seconds and maybe a point and one to six digits of a fraction; colons
\* between hours, minutes and seconds, or none.  The outcome tells whether
\* s is such a text, and the seconds and microseconds of the offset.
ZoneOffset(s) ==
    LET n     == Len(s)
        colon == At(s, 3) = ":"
        m     == IF colon THEN 4 ELSE 3
        sc    == IF colon THEN 7 ELSE 5
        fr    == sc + 3
        Two(i) == IsDigit(At(s, i)) /\ IsDigit(At(s, i + 1))
        Val(i) == DigitVal(At(s, i)) * 10 + DigitVal(At(s, i + 1))
        pad   == <<100000, 10000, 1000, 100, 10, 1>>
        shapeOk ==
            /\ At(s, 0) \in {"+", "-"}
            /\ Two(1) /\ Two(m) /\ Val(m) < 60
            /\ \/ n = m + 2
               \/ /\ colon => At(s, 6) = ":"
                  /\ Two(sc) /\ Val(sc) < 60
                  /\ \/ n = sc + 2
                     \/ /\ At(s, sc + 2) = "."
                        /\ n - fr \in 1..6
                        /\ \A i \in fr..(n - 1) : IsDigit(At(s, i))
        sign  == IF At(s, 0) = "-" THEN -1 ELSE 1
        secs  == Val(1) * 3600 + Val(m) * 60 + (IF n > m + 2 THEN Val(sc) ELSE 0)
    IN  IF s = <<"Z">> THEN [ok |-> TRUE, offs |-> 0, offus |-> 0]
        ELSE IF ~shapeOk \/ secs >= 86400 THEN [ok |-> FALSE, offs |-> 0, offus |-> 0]
        ELSE [ok |-> TRUE, offs |-> sign * secs,
              offus |-> IF n > sc + 2 THEN sign * Num(s, fr + 1, n) * pad[n - fr]
                        ELSE 0]

\* The datetime of the six fields tok of a date text, NoDate standing for
\* the ValueError.
StrpFields(tok, named) ==
    LET hms == Split(tok[5], <<":">>)
        shapeOk ==
            /\ Len(tok[1]) = 4
            /\ StrLower(SubSeq(tok[1], 1, 3)) \in DayAbbr
            /\ tok[1][4] = ","
            /\ ShortNumber(tok[2])
            /\ MonthOf(tok[3]) # 0
            /\ Len(tok[4]) = 4 /\ AllDigits(tok[4], 1, 4)
            /\ Len(hms) = 3
            /\ \A i \in 1..3 : ShortNumber(hms[i])
            /\ IF named THEN StrLower(tok[6]) \in {<<"u","t","c">>, <<"g","m","t">>} ELSE ZoneOffset(tok[6]).ok
    IN  IF ~shapeOk THEN NoDate
        ELSE
            LET y  == Num(tok[4], 1, 4)
                mo == MonthOf(tok[3])
                d  == Num(tok[2], 1, Len(tok[2]))
                h  == Num(hms[1], 1, Len(hms[1]))
                mi == Num(hms[2], 1, Len(hms[2]))
                sc == Num(hms[3], 1, Len(hms[3]))
                zone == IF named THEN OffsetParts(0, 0)
                        ELSE OffsetParts(ZoneOffset(tok[6]).offs,
                                         ZoneOffset(tok[6]).offus)
                fieldsOk ==
                    /\ y >= 1 /\ d >= 1 /\ d <= DaysInMonth(y, mo)
                    /\ h < 24 /\ mi < 60 /\ sc < 60
            IN  IF ~fieldsOk THEN NoDate
                ELSE [nil |-> FALSE, y |-> y, mo |-> mo, d |-> d, h |-> h,
                      mi |-> mi, sec |-> sc, microsecond |-> 0, aware |-> ~named,
                      off |-> zone.off, offsec |-> zone.offsec,
                      offus |-> zone.offus]

\* datetime.strptime(value, "%a, %d %b %Y %H:%M:%S " + zone), zone being
\* "%Z" (named) or "%z".  A blank of the format matches a run of one or
\* more whitespace characters of any kind, and the format must match the
\* whole value: whitespace before the first field or after the last one is
\* a ValueError.
StrpTime(v, named) ==
    IF v = <<>> \/ v[1] \in Whitespace \/ v[Len(v)] \in Whitespace THEN NoDate
    ELSE CHOOSE dt \in
            {IF Len(tok) # 6 THEN NoDate ELSE StrpFields(tok, named) :
                tok \in {NonEmpty(Split([i \in DOMAIN v |->
                                           IF v[i] \in Whitespace THEN " " ELSE v[i]],
                                        <<" ">>))}} : TRUE

\* dt.replace(tzinfo=timezone.utc)
ReplaceUtc(dt) ==
    [dt EXCEPT !.aware = TRUE, !.off = 0, !.offsec = 0, !.offus = 0]

\* parse_medium_date: the first of the two formats that parses, a naive
\* result made UTC; NoDate for None.
parse_medium_date(v) ==
    IF v = <<>> THEN NoDate
    ELSE CHOOSE dt \in
            {IF ~named.nil THEN (IF named.aware THEN named ELSE ReplaceUtc(named))
             ELSE IF ~offset.nil
                  THEN (IF offset.aware THEN offset ELSE ReplaceUtc(offset))
                  ELSE NoDate :
                named \in {StrpTime(v, TRUE)}, offset \in {StrpTime(v, FALSE)}} : TRUE

\* The feed file when it is missing.
NoFile == [exists |-> FALSE, text |-> <<>>]

\* The blocks of the text: text.split("---"), stripped, the empty ones left out.
BlocksOf(text) ==
    CHOOSE blocks \in
        {NonEmpty([i \in DOMAIN pieces |-> StrStrip(pieces[i], Whitespace)]) :
            pieces \in {Split(text, <<"-","-","-">>)}} : TRUE

\* What the lines of a block leave for MediumPost.
MediumPost(block) ==
    CHOOSE post \in
        {[title |-> FieldOf(lines, TitlePrefix),
          link |-> FieldOf(lines, LinkPrefix),
          published |-> CHOOSE dt \in {parse_medium_date(date) :
                                          date \in {FieldOf(lines, <<"D","a","t","e",":">>)}} : TRUE,
          tags |-> TagsOf(lines)] :
            lines \in {SplitLines(block)}} : TRUE

\* posts before it is sorted: one MediumPost for each block with a title
\* and a link.
PostsOf(text) ==
    CHOOSE posts \in
        {SelectSeq([i \in DOMAIN blocks |-> MediumPost(blocks[i])],
                   LAMBDA p : p.title # <<>> /\ p.link # <<>>) :
            blocks \in {BlocksOf(text)}} : TRUE

\* The sort keys of posts: p.published or datetime.min
PublishedKeys(posts) ==
    [i \in DOMAIN posts |->
        [sort_key |-> IF posts[i].published.nil THEN DatetimeMin ELSE posts[i].published,
         at |-> i]]

\* posts.sort(key=lambda p: p.published or datetime.min, reverse=True):
\* the outcome is the exception raised ("" for none) and the sorted list.
\* Sorting compares the keys, which raises TypeError for datetime.min and a
\* parsed date.
SortedPosts(posts) ==
    IF ~SortKeysComparable(PublishedKeys(posts)) THEN [exc |-> "TypeError", posts |-> <<>>]
    ELSE [exc |-> "",
          posts |-> CHOOSE sorted \in
                      {[i \in DOMAIN order |-> posts[order[i].at]] :
                          order \in {SortedBySortKey(PublishedKeys(posts))}} : TRUE]

\* parse_medium_posts: the outcome is the exception raised ("" for none)
\* and the list of MediumPosts.
parse_medium_posts(f) ==
    IF ~f.exists THEN [exc |-> "", posts |-> <<>>]
    ELSE CHOOSE out \in {SortedPosts(posts) : posts \in {PostsOf(f.text)}} : TRUE

(***************************************************************************)
(* The feed files: blocks as get_blogs.py prints them, each ended by a     *)
(* line of three hyphens.                                                  *)
(***************************************************************************)
\* The blocks the feed files are made of.
FeedBlock ==
    [
     \* A dated article, its timezone a name.
     gmt |->
        <<"T","i","t","l","e",":"," ","A","\n","L","i","n","k",":"," ","u","\n","D",
        "a","t","e",":"," ","F","r","i",","," ","1","9"," ","D","e","c"," ",
        "2","0","2","5"," ","1","3",":","1","6",":","1","5"," ","G","M","T",
        "\n","T","a","g","s",":"," ","[","'","a","'",","," ","'","b","'","]",
        "\n","-","-","-","\n">>,
     \* A dated article, its timezone an offset.
     offset |->
        <<"T","i","t","l","e",":"," ","B","\n","L","i","n","k",":"," ","v","\n","D",
        "a","t","e",":"," ","S","a","t",","," ","2","0"," ","D","e","c"," ",
        "2","0","2","5"," ","0","9",":","0","0",":","0","0"," ","+","0","1",
        "0","0","\n","T","a","g","s",":"," ","N","o","n","e","\n","-","-","-",
        "\n">>,
     \* A dated article in lower case.
     utc |->
        <<"T","i","t","l","e",":"," ","F","\n","L","i","n","k",":"," ","z","\n","D",
        "a","t","e",":"," ","t","h","u",","," ","1","8"," ","d","e","c"," ",
        "2","0","2","5"," ","2","3",":","5","9",":","5","9"," ","U","T","C",
        "\n","T","a","g","s",":"," ","[","]","\n","-","-","-","\n">>,
     \* A dated article with one-digit fields, a tab after the day name and
     \* two spaces before the year.
     short |->
        <<"T","i","t","l","e",":"," ","G","\n","L","i","n","k",":"," ","t","\n","D",
        "a","t","e",":"," ","M","o","n",",","\t","1"," ","J","a","n"," "," ","2",
        "0","2","4"," ","0",":","0","0",":","0","0"," ","-","0","5",":","0",
        "0","\n","T","a","g","s",":"," ","[","\"","x","\"",","," ","'","y",
        " ","z","'","]","\n","-","-","-","\n">>,
     \* An article without a date.
     undated |->
        <<"T","i","t","l","e",":"," ","C","\n","L","i","n","k",":"," ","w","\n","T",
        "a","g","s",":"," ","[","\"","x","\"","]","\n","-","-","-","\n">>,
     \* An article whose date does not parse.
     baddate |->
        <<"T","i","t","l","e",":"," ","D","\n","L","i","n","k",":"," ","x","\n","D",
        "a","t","e",":"," ","y","e","s","t","e","r","d","a","y","\n","T","a",
        "g","s",":"," ","n","o","n","e","\n","-","-","-","\n">>,
     \* A block without a title.
     notitle |->
        <<"L","i","n","k",":"," ","y","\n","D","a","t","e",":"," ","F","r","i",",",
        " ","1","9"," ","D","e","c"," ","2","0","2","5"," ","1","3",":","1",
        "6",":","1","5"," ","G","M","T","\n","T","a","g","s",":"," ","N","o",
        "n","e","\n","-","-","-","\n">>,
     \* A block whose link is empty.
     nolink |->
        <<"T","i","t","l","e",":"," ","E","\n","L","i","n","k",":"," "," ","\n","-",
        "-","-","\n">>
    ]

FeedBlocks == {FeedBlock[k] : k \in DOMAIN FeedBlock}

\* The texts of up to n blocks.
RECURSIVE FeedTexts(_)
FeedTexts(n) ==
    IF n = 0 THEN {<<>>}
    ELSE {<<>>} \cup {b \o rest : b \in FeedBlocks, rest \in FeedTexts(n - 1)}

\* The feed files build_site is run with: none, one of four dated
\* articles, one of a dated and an undated article.
BuildFeeds ==
    {NoFile,
     [exists |-> TRUE, text |-> FeedBlock.utc \o FeedBlock.offset \o FeedBlock.short \o FeedBlock.gmt],
     [exists |-> TRUE, text |-> FeedBlock.undated \o FeedBlock.gmt]}

(***************************************************************************)
(* build_site as a state machine.                                          *)
(***************************************************************************)
Raw(fields) == [k \in Range(Keys) |-> IF k \in DOMAIN fields THEN fields[k] ELSE Absent]

\* The records public_repos.json is made of.
BuildRecords ==
    { Raw([name |-> PyStr(<<"a",".","b">>), language |-> PyStr(<<"C">>), topics |-> PyList(<<<<"c","l","i">>>>),
           stargazers_count |-> PyInt(1), pushed_at |-> PyStr(<<"2","0","2","4","-","0","3","-","0","1","T","0","8",":","0","0",":","0","0","Z">>)]),
      Raw([name |-> PyStr(<<"a","-","b">>), language |-> PyStr(<<"C","+","+">>), fork |-> PyBool(TRUE),
           topics |-> PyList(<<<<"f","o","r","k">>>>), stargazers_count |-> PyInt(1),
           pushed_at |-> PyStr(<<"2","0","2","4","-","0","1","-","0","1","T","0","0",":","0","0",":","0","0","Z">>)]),
      Raw([name |-> PyStr(<<"R","A","G">>), language |-> PyStr(<<"G","o">>), topics |-> PyList(<<<<"G","o">>>>),
           updated_at |-> PyStr(<<"2","0","2","4","-","0","6","-","0","1","T","1","2",":","3","0",":","0","0","+","0","2",":","0","0">>)]),
      Raw([name |-> PyStr(<<"K","i","t","e","G","a","m","e">>), stargazers_count |-> PyInt(2)]),
      Raw([name |-> PyStr(<<"w","e","b","_","c","r","a","w","l","e","r">>), stargazers_count |-> PyInt(5),
           pushed_at |-> PyStr(<<"2","0","2","4","-","0","1","-","0","1","T","0","0",":","0","0",":","0","0","Z">>)]),
      Raw([name |-> PyStr(<<"w","e","b">>), language |-> PyStr(<<"g","o">>), topics |-> PyList(<<<<"c","l","i">>>>),
           created_at |-> PyStr(<<"2","0","2","3","-","0","5","-","0","5","T","0","5",":","0","5",":","0","5">>),
           stargazers_count |-> PyInt(3)]),
      Raw([name |-> PyStr(<<"b","a","d">>), stargazers_count |-> PyStr(<<"a","b","c">>)]),
      Raw([name |-> PyStr(<<"z","e","d">>), language |-> PyStr(<<"G","o">>), pushed_at |-> PyStr(<<"2","0","2","4","-","0","6","-","0","1","T","1","2",":","3","0",":","0","0","+","0","2",":","0","0">>),
           updated_at |-> PyStr(<<"2","0","2","4","-","0","1","-","0","1","T","0","0",":","0","0",":","0","0","Z">>), stargazers_count |-> PyInt(2)]),
      Raw([name |-> PyStr(<<"n","u","m">>), language |-> PyInt(1), pushed_at |-> PyStr(<<"2","0","2","4","-","0","1","-","0","1","T","0","0",":","0","0",":","0","0","Z">>)]),
      Raw([name |-> PyStr(<<"p","y">>), language |-> PyStr(<<"P","y","t","h","o","n">>), fork |-> PyBool(TRUE),
           pushed_at |-> PyStr(<<"2","0","2","4","-","0","3","-","0","1","T","0","8",":","0","0",":","0","0","Z">>), stargazers_count |-> PyInt(3)]),
      Raw([name |-> PyStr(<<"l","a","t","e">>), language |-> PyStr(<<"T","y","p","e","S","c","r","i","p","t">>),
           created_at |-> PyStr(<<"2","0","2","4","-","0","6","-","0","1","T","1","2",":","3","0",":","0","0","+","0","2",":","0","0">>), pushed_at |-> PyStr(<<"n","o","n","e">>)]),
      Raw([name |-> PyStr(<<"y","e","s">>), language |-> PyBool(TRUE),
           pushed_at |-> PyStr(<<"2","0","2","4","-","0","3","-","0","1","T","0","8",":","0","0","Z">>)]),
      Raw([name |-> PyStr(<<"l","l">>), language |-> PyList(<<<<"G","o">>>>),
           pushed_at |-> PyStr(<<"2","0","2","4","0","1","0","1">>)]) }

\* The sequences of up to n records in the ascending order of their names.
RECURSIVE Ascending(_)
Ascending(n) ==
    IF n = 0 THEN {<<>>}
    ELSE LET shorter == Ascending(n - 1)
         IN  shorter
             \cup UNION {{Append(l, r) :
                            r \in {x \in BuildRecords :
                                      l = <<>> \/ StrLess(l[Len(l)].name.s, x.name.s)}} :
                           l \in {m \in shorter : Len(m) = n - 1}}

\* The sequences of up to n different records, in the ascending or the
\* descending order of their names.
RecordLists(n) == Ascending(n) \cup {Reverse(l) : l \in Ascending(n)}

Init ==
    /\ data \in {[exists |-> FALSE, records |-> <<>>]}
                \cup {[exists |-> TRUE, records |-> l] : l \in RecordLists(MaxRepos)}
    /\ medium_file \in BuildFeeds
    /\ outdir \in {EmptyDir, StaleDir}
    /\ pc = "load"
    /\ exc = NoExc
    /\ repos = <<>>
    /\ medium_posts = <<>>
    /\ featured = <<>>
    /\ pinned_pages = <<>>
    /\ stats = NoStats
    /\ tags = <<>>
    /\ idx = 0
    /\ log = <<>>
    /\ value = <<>>
    /\ slugPc = "idle"
    /\ slug = <<>>
    /\ reslug = <<>>
    /\ record = EmptyRaw
    /\ normPc = "idle"
    /\ result = [exc |-> "", repo |-> NoRepo]
    /\ feedfile = NoFile
    /\ medPc = "idle"
    /\ parsed = [exc |-> "", posts |-> <<>>]
    /\ entities = <<>>
    /\ tagPc = "idle"
    /\ grouped = [exc |-> "", tags |-> <<>>]

\* build_site ends with the exception e, raised by the step it is at.
Fail(e) ==
    /\ pc' = "failed"
    /\ exc' = [type |-> e, at |-> pc]

\* load_repos: the outcome is the exception raised ("" for none) and the
\* list of RepoPosts.
load_repos(d) ==
    CHOOSE loaded \in
        {LET e == FirstExc([i \in DOMAIN outs |-> outs[i].exc])
         IN  IF ~d.exists THEN [exc |-> "FileNotFoundError", repos |-> <<>>]
             ELSE IF e # "" THEN [exc |-> e, repos |-> <<>>]
             ELSE [exc |-> "", repos |-> [i \in DOMAIN outs |-> outs[i].repo]] :
            outs \in {[i \in DOMAIN d.records |-> normalize_repo(d.records[i])]}} :
        TRUE

\* repos = load_repos()
LoadRepos ==
    /\ pc = "load"
    /\ \E loaded \in {load_repos(data)} :
          IF loaded.exc # ""
          THEN Fail(loaded.exc) /\ UNCHANGED repos
          ELSE pc' = "sort" /\ repos' = loaded.repos /\ UNCHANGED exc
    /\ UNCHANGED <<data, medium_file, outdir, medium_posts, featured, pinned_pages, stats, tags,
                   idx, log, slugVars, normVars, medVars, tagVars>>

\* repos.sort(key=lambda r: r.sort_key, reverse=True)
SortRepos ==
    /\ pc = "sort"
    /\ \E done \in {list_sort(repos)} :
          /\ repos' = done.items
          /\ IF done.exc THEN Fail("TypeError")
             ELSE pc' = "select" /\ UNCHANGED exc
    /\ UNCHANGED <<data, medium_file, outdir, medium_posts, featured, pinned_pages, stats, tags,
                   idx, log, slugVars, normVars, medVars, tagVars>>

\* medium_posts = parse_medium_posts(), then featured, pinned_pages and
\* pinned_map are computed.
Select ==
    /\ pc = "select"
    /\ \E read \in {parse_medium_posts(medium_file)} :
          IF read.exc # ""
          THEN /\ Fail(read.exc)
               /\ UNCHANGED <<medium_posts, featured, pinned_pages>>
          ELSE /\ medium_posts' = read.posts
               /\ featured' = Featured(repos)
               /\ pinned_pages' = PinnedPages(repos)
               /\ pc' = "clean"
               /\ UNCHANGED exc
    /\ UNCHANGED <<data, medium_file, outdir, repos, stats, tags, idx, log, slugVars,
                   normVars, medVars, tagVars>>

\* ensure_output_dir()
EnsureOutputDir ==
    /\ pc = "clean"
    /\ outdir' = ensure_output_dir(outdir)
    /\ log' = Append(log, [op |-> "delete", path |-> Path("", <<>>),
                          removed |-> DOMAIN outdir])
    /\ pc' = "assets"
    /\ UNCHANGED <<data, medium_file, exc, repos, medium_posts, featured, pinned_pages, stats, tags,
                   idx, slugVars, normVars, medVars, tagVars>>

\* copy_assets()
CopyAssets ==
    /\ pc = "assets"
    /\ outdir' = copy_assets(outdir)
    /\ log' = Append(log, [op |-> "copy", path |-> Path("assets", <<>>), removed |-> {}])
    /\ pc' = "tags"
    /\ UNCHANGED <<data, medium_file, exc, repos, medium_posts, featured, pinned_pages, stats, tags,
                   idx, slugVars, normVars, medVars, tagVars>>

\* stats = {...}; tags = build_tags(repos)
BuildTags ==
    /\ pc = "tags"
    /\ \E counted \in {Stats(repos)}, built \in {build_tags(repos)} :
          IF counted.exc # ""
          THEN Fail(counted.exc) /\ UNCHANGED <<stats, tags>>
          ELSE /\ stats' = counted.stats
               /\ IF built.exc # ""
                  THEN Fail(built.exc) /\ UNCHANGED tags
                  ELSE pc' = "index" /\ tags' = built.tags /\ UNCHANGED exc
    /\ UNCHANGED <<data, medium_file, outdir, repos, medium_posts, featured, pinned_pages, idx, log,
                   slugVars, normVars, medVars, tagVars>>

\* render(env, template_name, context, destination): the page is written at
\* its path, over what was there.
Render(path, template, title, ctx) ==
    /\ outdir' = WriteFile(outdir, path, File(1, template, title, ctx))
    /\ log' = Append(log, [op |-> "write", path |-> path, removed |-> {}])

\* Where build_site goes on after the tags index, the tag pages, the post
\* pages: a loop over an empty list is skipped.
AfterPosts == IF pinned_pages # <<>> THEN "pinned" ELSE "finish"

AfterTags == IF repos # <<>> THEN "post" ELSE AfterPosts

AfterTagsIndex == IF tags # <<>> THEN "tag" ELSE AfterTags

MediumMax == 3

\* The index page.
RenderIndex ==
    /\ pc = "index"
    /\ Render(Path("", <<>>), "index.html", <<"H","o","m","e">>,
              [EmptyCtx EXCEPT !.featured = featured, !.posts = repos, !.stats = stats,
                               !.medium_posts =
                                   SubSeq(medium_posts, 1,
                                          IF Len(medium_posts) < MediumMax
                                          THEN Len(medium_posts) ELSE MediumMax),
                               !.pinned_map = PinnedMap(pinned_pages)])
    /\ pc' = "projects"
    /\ UNCHANGED <<data, medium_file, exc, repos, medium_posts, featured, pinned_pages, stats, tags,
                   idx, slugVars, normVars, medVars, tagVars>>

\* The projects page.
RenderProjects ==
    /\ pc = "projects"
    /\ Render(Path("projects", <<>>), "projects.html", <<"P","r","o","j","e","c","t","s">>,
              [EmptyCtx EXCEPT !.posts = repos, !.pinned_map = PinnedMap(pinned_pages)])
    /\ pc' = "tagsindex"
    /\ UNCHANGED <<data, medium_file, exc, repos, medium_posts, featured, pinned_pages, stats, tags,
                   idx, slugVars, normVars, medVars, tagVars>>

\* The tags index.
RenderTagsIndex ==
    /\ pc = "tagsindex"
    /\ Render(Path("tags", <<>>), "tags.html", <<"T","a","g","s">>, [EmptyCtx EXCEPT !.tags = tags])
    /\ pc' = AfterTagsIndex
    /\ idx' = 1
    /\ UNCHANGED <<data, medium_file, exc, repos, medium_posts, featured, pinned_pages, stats, tags,
                   slugVars, normVars, medVars, tagVars>>

\* One pass of `for tag in tags`.
RenderTag ==
    /\ pc = "tag"
    /\ Render(Path("tags", tags[idx].slug), "tag.html", <<"T","a","g",":"," ">> \o tags[idx].name.s,
              [EmptyCtx EXCEPT !.tags = <<tags[idx]>>, !.posts = tags[idx].repos])
    /\ IF idx < Len(tags)
       THEN idx' = idx + 1 /\ pc' = "tag"
       ELSE idx' = 1 /\ pc' = AfterTags
    /\ UNCHANGED <<data, medium_file, exc, repos, medium_posts, featured, pinned_pages, stats, tags,
                   slugVars, normVars, medVars, tagVars>>

\* One pass of `for repo in repos`.
RenderPost ==
    /\ pc = "post"
    /\ Render(Path("posts", repos[idx].slug), "post.html", repos[idx].name,
              [EmptyCtx EXCEPT !.repo = <<repos[idx]>>,
                               !.pinned_map = PinnedMap(pinned_pages)])
    /\ IF idx < Len(repos)
       THEN idx' = idx + 1 /\ pc' = "post"
       ELSE idx' = 1 /\ pc' = AfterPosts
    /\ UNCHANGED <<data, medium_file, exc, repos, medium_posts, featured, pinned_pages, stats, tags,
                   slugVars, normVars, medVars, tagVars>>

\* One pass of `for page in pinned_pages`.
RenderPinned ==
    /\ pc = "pinned"
    /\ Render(Path("pinned", pinned_pages[idx].slug), "pinned.html",
              PinnedTitle(pinned_pages[idx].name),
              [EmptyCtx EXCEPT !.repo = <<pinned_pages[idx]>>])
    /\ IF idx < Len(pinned_pages)
       THEN idx' = idx + 1 /\ pc' = "pinned"
       ELSE idx' = 1 /\ pc' = "finish"
    /\ UNCHANGED <<data, medium_file, exc, repos, medium_posts, featured, pinned_pages, stats, tags,
                   slugVars, normVars, medVars, tagVars>>

\* print(f"Built {len(repos)} posts into {OUTPUT_DIR}")
Finish ==
    /\ pc = "finish"
    /\ pc' = "done"
    /\ UNCHANGED <<data, medium_file, outdir, exc, repos, medium_posts, featured, pinned_pages,
                   stats, tags, idx, log, slugVars, normVars, medVars, tagVars>>

Next ==
    \/ LoadRepos
    \/ SortRepos
    \/ Select
    \/ EnsureOutputDir
    \/ CopyAssets
    \/ BuildTags
    \/ RenderIndex
    \/ RenderProjects
    \/ RenderTagsIndex
    \/ RenderTag
    \/ RenderPost
    \/ RenderPinned
    \/ Finish

Spec == Init /\ [][Next]_vars

\* The build_site variables while build_site is not run.
BuildIdle ==
    /\ data = [exists |-> FALSE, records |-> <<>>]
    /\ medium_file = NoFile
    /\ outdir = EmptyDir
    /\ pc = "idle"
    /\ exc = NoExc
    /\ repos = <<>>
    /\ medium_posts = <<>>
    /\ featured = <<>>
    /\ pinned_pages = <<>>
    /\ stats = NoStats
    /\ tags = <<>>
    /\ idx = 0
    /\ log = <<>>

(***************************************************************************)
(* normalize_repo as a state machine: a raw record is drawn and            *)
(* normalized.  A raw record has at most MaxPresent of its keys present.   *)
(***************************************************************************)
\* The values a present key is drawn from: well-formed ones, null, and
\* values of an unexpected type.
FieldValues(key) ==
    CASE key = "name" -> {PyStr(<<"M","y",".","R","e","p","o">>), PyStr(<<>>), PyInt(5)}
      [] key = "full_name" -> {PyStr(<<"m","e","/","M","y",".","R","e","p","o">>)}
      [] key = "description" -> {PyStr(<<" ","A"," ","t","o","o","l","."," ">>), PyStr([i \in 1..(SummaryMax + 1) |-> "x"]), PyInt(7)}
      [] key = "html_url" -> {PyStr(<<"h","t","t","p","s",":","/","/","x">>)}
      [] key = "homepage" -> {PyStr(<<>>)}
      [] key = "language" ->
            {PyStr(<<"P","y","t","h","o","n">>), PyStr(<<"J","a","v","a","S","c","r","i","p","t">>), PyStr(<<"T","y","p","e","S","c","r","i","p","t">>), PyStr(<<"C","+","+">>),
             PyStr(<<"C">>), PyStr(<<"G","o">>), PyStr(<<>>), PyNone, PyInt(3),
             PyList(<<<<"G","o">>>>)}
      [] key = "topics" ->
            {PyList(<<<<"c","l","i">>, <<"G","o">>>>), PyList(<<<<"f","o","r","k">>>>), PyList(<<>>), PyStr(<<"c","l","i">>),
             PyInt(4), PyNone, PyDictOther(<<<<"k","e","y">>>>)}
      [] key = "license" ->
            {PyDictNamed(<<"M","I","T">>), PyDictOther(<<<<"k","e","y">>>>), PyStr(<<"M","I","T">>), PyNone}
      [] key = "fork" -> {PyBool(TRUE), PyBool(FALSE), PyNone}
      [] key = "default_branch" -> {PyStr(<<"d","e","v">>)}
      [] key = "stargazers_count" ->
            {PyInt(3), PyStr(<<"1","2">>), PyStr(<<"-","3">>), PyStr(<<"a","b","c">>),
             PyList(<<<<"a","b","c">>>>), PyNone}
      [] key = "forks_count" -> {PyInt(1), PyStr(<<"1","_","0","0","0">>), PyStr(<<"a","b","c">>)}
      [] key = "watchers_count" -> {PyInt(2), PyNone}
      [] key = "created_at" -> {PyStr(<<"2","0","2","3","-","0","3","-","0","5","T","1","0",":","0","0",":","0","0","Z">>), PyStr(<<"2","0","2","3","-","1","3","-","0","5","T","1","0",":","0","0",":","0","0","Z">>),
             PyStr(<<"0","9","9","9","-","0","5","-","0","5">>)}
      [] key = "updated_at" -> {PyStr(<<"2","0","2","4","-","0","6","-","0","1","T","1","2",":","3","0",":","0","0","+","0","2",":","0","0">>), PyInt(5),
             PyStr(<<"2","0","2","4","-","W","2","3","-","6","T","1","2","3","0",".","5","-","0","1","3","0">>)}
      [] key = "pushed_at" ->
            {PyStr(<<"2","0","2","4","-","0","1","-","0","1","T","0","0",":","0","0",":","0","0","Z">>), PyStr(<<"2","0","2","4","-","0","1","-","0","1","T","0","0",":","0","0",":","0","0">>), PyStr(<<"n","o","t"," ","a"," ","d","a","t","e">>), PyStr(<<>>),
             PyStr(<<"2","0","2","4","-","0","1","-","0","1","T","0","0",":","0","0","Z">>)}

\* The raw records over the keys from the i-th on, with at most budget of
\* them present.
RECURSIVE RawsFrom(_, _)
RawsFrom(i, budget) ==
    IF i > Len(Keys) THEN {EmptyRaw}
    ELSE RawsFrom(i + 1, budget)
         \cup (IF budget = 0 THEN {}
               ELSE {[r EXCEPT ![Keys[i]] = v] :
                        r \in RawsFrom(i + 1, budget - 1),
                        v \in FieldValues(Keys[i])})

NormInit ==
    /\ record \in RawsFrom(1, MaxPresent)
    /\ normPc = "input"
    /\ result = [exc |-> "", repo |-> NoRepo]
    /\ BuildIdle
    /\ feedfile = NoFile
    /\ medPc = "idle"
    /\ parsed = [exc |-> "", posts |-> <<>>]
    /\ entities = <<>>
    /\ tagPc = "idle"
    /\ grouped = [exc |-> "", tags |-> <<>>]
    /\ value = <<>>
    /\ slugPc = "idle"
    /\ slug = <<>>
    /\ reslug = <<>>

Normalize ==
    /\ normPc = "input"
    /\ result' = normalize_repo(record)
    /\ normPc' = "done"
    /\ UNCHANGED <<record, slugVars, medVars, tagVars, buildVars>>

NormNext == Normalize

SpecNorm == NormInit /\ [][NormNext]_vars

(***************************************************************************)
(* parse_medium_posts as a state machine: a feed file of at most MaxBlocks *)
(* blocks is drawn and parsed.                                             *)
(***************************************************************************)
MedInit ==
    /\ feedfile \in {NoFile} \cup {[exists |-> TRUE, text |-> x] : x \in FeedTexts(MaxBlocks)}
    /\ medPc = "input"
    /\ parsed = [exc |-> "", posts |-> <<>>]
    /\ BuildIdle
    /\ entities = <<>>
    /\ tagPc = "idle"
    /\ grouped = [exc |-> "", tags |-> <<>>]
    /\ record = EmptyRaw
    /\ normPc = "idle"
    /\ result = [exc |-> "", repo |-> NoRepo]
    /\ value = <<>>
    /\ slugPc = "idle"
    /\ slug = <<>>
    /\ reslug = <<>>

ParseMediumPosts ==
    /\ medPc = "input"
    /\ parsed' = parse_medium_posts(feedfile)
    /\ medPc' = "done"
    /\ UNCHANGED <<feedfile, slugVars, normVars, tagVars, buildVars>>

MedNext == ParseMediumPosts

SpecMedium == MedInit /\ [][MedNext]_vars

(***************************************************************************)
(* build_tags as a state machine: a list of at most MaxRepos RepoPosts, in *)
(* any of the orders of RecordLists, is drawn and grouped.                 *)
(***************************************************************************)
\* The RepoPosts of the records of l, which normalize_repo accepts.
RepoPosts(l) == [i \in DOMAIN l |-> normalize_repo(l[i]).repo]

TagInit ==
    /\ entities \in {RepoPosts(l) :
                        l \in {m \in RecordLists(MaxRepos) :
                                 \A i \in DOMAIN m : normalize_repo(m[i]).exc = ""}}
    /\ tagPc = "input"
    /\ grouped = [exc |-> "", tags |-> <<>>]
    /\ BuildIdle
    /\ feedfile = NoFile
    /\ medPc = "idle"
    /\ parsed = [exc |-> "", posts |-> <<>>]
    /\ record = EmptyRaw
    /\ normPc = "idle"
    /\ result = [exc |-> "", repo |-> NoRepo]
    /\ value = <<>>
    /\ slugPc = "idle"
    /\ slug = <<>>
    /\ reslug = <<>>

GroupByTag ==
    /\ tagPc = "input"
    /\ grouped' = build_tags(entities)
    /\ tagPc' = "done"
    /\ UNCHANGED <<entities, slugVars, normVars, medVars, buildVars>>

TagNext == GroupByTag

SpecTags == TagInit /\ [][TagNext]_vars

(***************************************************************************)
(* slugify as a state machine: a name is drawn, slugified, and the slug is *)
(* slugified again.                                                        *)
(***************************************************************************)
NameChars == {"a", "Z", "7", "-", " ", ".", "É"}

SeqsUpTo(S, n) == UNION {[1..k -> S] : k \in 0..n}

Names == SeqsUpTo(NameChars, MaxNameLen)

SlugInit ==
    /\ value \in Names
    /\ slugPc = "input"
    /\ slug = <<>>
    /\ reslug = <<>>
    /\ record = EmptyRaw
    /\ normPc = "idle"
    /\ result = [exc |-> "", repo |-> NoRepo]
    /\ feedfile = NoFile
    /\ medPc = "idle"
    /\ parsed = [exc |-> "", posts |-> <<>>]
    /\ entities = <<>>
    /\ tagPc = "idle"
    /\ grouped = [exc |-> "", tags |-> <<>>]
    /\ BuildIdle

Slugify ==
    /\ slugPc = "input"
    /\ slug' = slugify(value)
    /\ slugPc' = "slugged"
    /\ UNCHANGED <<value, reslug, normVars, medVars, tagVars, buildVars>>

Reslugify ==
    /\ slugPc = "slugged"
    /\ reslug' = slugify(slug)
    /\ slugPc' = "reslugged"
    /\ UNCHANGED <<value, slug, normVars, medVars, tagVars, buildVars>>

SlugNext == Slugify \/ Reslugify

SpecSlug == SlugInit /\ [][SlugNext]_vars

(***************************************************************************)
(* C1, C3, C10: normalize_repo.                                            *)
(***************************************************************************)
Normalized == normPc = "done" /\ result.exc = ""

\* A count that int() accepts.
WellFormedCount(v) == IntOf(v).exc = ""

\* C1: normalize_repo never raises, whatever an optional field holds, and a
\* count that is absent, null or not a number is 0, a license that is
\* absent, null or not a mapping is absent, topics that are absent, null or
\* not a list are empty.
C1_NeverRaises ==
    normPc = "done" =>
        /\ result.exc = ""
        /\ \A key \in {"stargazers_count", "forks_count", "watchers_count"} :
              ~WellFormedCount(record[key]) => result.repo[key] = 0
        /\ (record["license"].t # "dict" => result.repo.license = PyNone)
        /\ (record["topics"].t # "list" => result.repo.topics = PyList(<<>>))

\* The tag made of one text.
Tag(text) == PyStr(text)

\* The topics of a raw record whose topics are a list, absent or null.
TopicTags(r) == [i \in DOMAIN r["topics"].l |-> Tag(r["topics"].l[i])]

HasTopicList(r) == r["topics"].t \in {"list", "absent", "none"}

ForkTags(r) == IF Truthy(r["fork"]) THEN <<Tag(<<"f","o","r","k">>)>> ELSE <<>>

\* C3 as claimed: the tags are the language if the record has one (no
\* language tag when it is missing or empty), then "fork" iff the record is
\* a fork, then the topics in their order.
C3_TagsAsClaimed ==
    (Normalized /\ HasTopicList(record)) =>
        result.repo.tags =
            (IF Truthy(record["language"]) THEN <<record["language"]>> ELSE <<>>)
            \o ForkTags(record) \o TopicTags(record)

\* C3 as amended: the tags are the language, a missing, null or empty
\* language being replaced by "Unspecified", then "fork" iff the record is
\* a fork, then the topics in their order.
C3_TagsWithDefault ==
    (Normalized /\ HasTopicList(record)) =>
        result.repo.tags =
            <<IF Truthy(record["language"]) THEN record["language"]
              ELSE Tag(<<"U","n","s","p","e","c","i","f","i","e","d">>)>>
            \o ForkTags(record) \o TopicTags(record)

\* A fork without a language and with two topics has been normalized.
C3_Witness ==
    /\ Normalized
    /\ record["language"].t = "absent"
    /\ record["fork"] = PyBool(TRUE)
    /\ record["topics"] = PyList(<<<<"c","l","i">>, <<"G","o">>>>)
    /\ result.repo.tags = <<Tag(<<"U","n","s","p","e","c","i","f","i","e","d">>), Tag(<<"f","o","r","k">>), Tag(<<"c","l","i">>), Tag(<<"G","o">>)>>

\* The variant the claim names for a language: by case-insensitive
\* substring match, Python-like, JavaScript- or TypeScript-like, C family,
\* else generic.
ClaimedVariant(language) ==
    LET lang == StrLower(language)
    IN  IF Contains(lang, <<"p","y","t","h","o","n">>) THEN PlanPython
        ELSE IF Contains(lang, <<"j","a","v","a","s","c","r","i","p","t">>) \/ Contains(lang, <<"t","y","p","e","s","c","r","i","p","t">>)
                \/ Contains(lang, <<"j","s">>)
             THEN PlanJs
        ELSE IF lang \in {<<"c">>, <<"c","+","+">>, <<"c","p","p">>} THEN PlanC
        ELSE PlanGeneric

\* C10: the plan is present iff the record is a fork, and for a fork it is
\* the shared preamble followed by the variant of the record's language;
\* the Python variant contains "type hints".
C10_PlanVariant ==
    (Normalized /\ result.repo.language.t = "str") =>
        /\ (result.repo.plan # PyNone) = Truthy(record["fork"])
        /\ Truthy(record["fork"]) =>
              result.repo.plan =
                  PyStr(PlanShared \o ClaimedVariant(result.repo.language.s))
        /\ Contains(PlanPython, <<"t","y","p","e"," ","h","i","n","t","s">>)

(***************************************************************************)
(* C2, C4, C5, C6, C9: build_site.                                         *)
(***************************************************************************)
\* The raw record has no timestamp that parse_date accepts.
NoTimestamp(r) ==
    \A key \in {"pushed_at", "updated_at", "created_at"} : parse_date(r[key]).dt.nil

\* The raw record has a timezone-aware timestamp.
AwareTimestamp(r) ==
    \E key \in {"pushed_at", "updated_at", "created_at"} : parse_date(r[key]).dt.aware

\* The records were all normalized.
Loaded == pc \notin {"load", "idle"} /\ ~(pc = "failed" /\ exc.at = "load")

\* C2: with records without a parsable timestamp among records with
\* timezone-aware timestamps, build_site's ordering steps do not raise.
C2_OrderingNeverRaises ==
    (/\ Loaded
     /\ \E i \in DOMAIN data.records : NoTimestamp(data.records[i])
     /\ \E i \in DOMAIN data.records : AwareTimestamp(data.records[i]))
    => ~(pc = "failed" /\ exc.at = "sort")

\* build_tags has returned.
TagsBuilt == pc \in {"index", "projects", "tagsindex", "tag", "post", "pinned",
                     "finish", "done"}

\* The entities that carry the tag.
Carrying(tag) == {repos[i] : i \in {k \in DOMAIN repos : tag \in Range(repos[k].tags)}}

\* C4: build_tags gives one group per distinct tag, whose members are
\* exactly the entities carrying the tag, each once, and whose count is the
\* number of these entities.
C4_TagGroups ==
    TagsBuilt =>
        /\ {tags[i].name : i \in DOMAIN tags} = UNION {Range(repos[k].tags) : k \in DOMAIN repos}
        /\ \A i, j \in DOMAIN tags : tags[i].name = tags[j].name => i = j
        /\ \A i \in DOMAIN tags :
              /\ Range(tags[i].repos) = Carrying(tags[i].name)
              /\ Len(tags[i].repos) = Cardinality(Carrying(tags[i].name))
              /\ tags[i].count = Cardinality(Carrying(tags[i].name))

\* The paths of the log's writes.
Written == SelectSeq(log, LAMBDA e : e.op = "write")

\* C5: after a successful run every entity has its page at posts/<slug>/,
\* rendered from it, every tag its page at tags/<slug>/, rendered from its
\* members, and no page of the run was written over by a later one.
C5_PagePerEntityAndTag ==
    pc = "done" =>
        /\ \A i \in DOMAIN repos :
              /\ Path("posts", repos[i].slug) \in DOMAIN outdir
              /\ outdir[Path("posts", repos[i].slug)].repo = <<repos[i]>>
        /\ \A i \in DOMAIN tags :
              /\ Path("tags", tags[i].slug) \in DOMAIN outdir
              /\ outdir[Path("tags", tags[i].slug)].tags = <<tags[i]>>
              /\ outdir[Path("tags", tags[i].slug)].posts = tags[i].repos
        /\ \A i, j \in DOMAIN Written : Written[i].path = Written[j].path => i = j

\* The labels of the most recent push among the entities.
LastPushedLabels ==
    {fmt(repos[i].pushed_at) :
        i \in {k \in DOMAIN repos :
                 /\ ~repos[k].pushed_at.nil
                 /\ \A j \in DOMAIN repos :
                       ~repos[j].pushed_at.nil
                       => ~DtLess(repos[k].pushed_at, repos[j].pushed_at)}}

\* C6: the home page's last_pushed is the label of the most recent push
\* among all entities when one has a pushed timestamp, and "n/a" when there
\* is no entity.
C6_LastPushed ==
    pc = "done" =>
        LET home == outdir[Path("", <<>>)].stats.last_pushed
        IN  /\ (\E i \in DOMAIN repos : ~repos[i].pushed_at.nil) => home \in LastPushedLabels
            /\ repos = <<>> => home = <<"n","/","a">>

\* C9: the output directory is deleted with all it holds, then the assets
\* are copied into it, and only then are pages written; at the end of a
\* successful run every file in it was written by the run.
C9_DeleteCopyRender ==
    /\ \A i \in DOMAIN log :
          /\ (log[i].op = "delete") = (i = 1)
          /\ (log[i].op = "copy") = (i = 2)
          /\ (log[i].op = "write") = (i > 2)
    /\ (Len(log) = 1 => DOMAIN outdir = {})
    /\ (Len(log) = 2 => DOMAIN outdir = {Path("assets", f) : f \in ASSETS_SRC})
    /\ pc = "done" =>
          /\ Len(log) > 2
          /\ \A p \in DOMAIN outdir : outdir[p].gen = 1
          /\ \A p \in DOMAIN outdir :
                p.dir = "assets" \/ \E i \in DOMAIN log : log[i].op = "write" /\ log[i].path = p

\* A run over a directory that held an earlier run's files has written its
\* pages and ended.
C9_Witness ==
    /\ pc = "done"
    /\ log[1].removed # {}
    /\ Len(repos) > 1
    /\ Len(log) > 6

(***************************************************************************)
(* C11: parse_medium_posts.                                                *)
(***************************************************************************)
\* The blocks of the feed file that have a title and a link.
BlocksKept ==
    SelectSeq(BlocksOf(feedfile.text),
              LAMBDA b : /\ FieldOf(SplitLines(b), TitlePrefix) # <<>>
                         /\ FieldOf(SplitLines(b), LinkPrefix) # <<>>)

\* Article a ranks below article b: it has no date and b has one, or its
\* date is the earlier one.
RanksBelow(a, b) ==
    IF a.published.nil THEN ~b.published.nil
    ELSE ~b.published.nil /\ DtLess(a.published, b.published)

\* The feed file has a block with a title, a link and a date that parses,
\* and one with a title and a link but no such date.
MixedFeed ==
    /\ feedfile.exists
    /\ \E i, j \in DOMAIN BlocksKept :
          /\ ~MediumPost(BlocksKept[i]).published.nil
          /\ MediumPost(BlocksKept[j]).published.nil

\* C11: parse_medium_posts returns, without raising, one article for each
\* block with a title and a link and no other, ordered by publish date
\* descending, the articles without a date last; so too for a feed that
\* mixes dated and undated blocks.
C11_ArticlesKeptAndOrdered ==
    medPc = "done" =>
        /\ parsed.exc = ""
        /\ Len(parsed.posts) = Len(BlocksKept)
        /\ \A i \in DOMAIN BlocksKept :
              \E j \in DOMAIN parsed.posts : parsed.posts[j] = MediumPost(BlocksKept[i])
        /\ \A i, j \in DOMAIN parsed.posts :
              i < j => ~RanksBelow(parsed.posts[i], parsed.posts[j])

\* Without the clause on raising and the order, for feeds that do not mix:
\* what parse_medium_posts does return.
C11_WhenUnmixed ==
    (medPc = "done" /\ ~MixedFeed) =>
        /\ parsed.exc = ""
        /\ Len(parsed.posts) = Len(BlocksKept)
        /\ \A i, j \in DOMAIN parsed.posts :
              i < j => ~RanksBelow(parsed.posts[i], parsed.posts[j])

\* A mixed feed always ends parse_medium_posts with a TypeError.
C11_MixedRaises ==
    (medPc = "done" /\ MixedFeed) => parsed.exc = "TypeError"

(***************************************************************************)
(* C12: build_tags.                                                        *)
(***************************************************************************)
\* The first present value among the pushed, updated and created
\* timestamps of an entity, else the minimum sentinel.
FirstPresent(r) ==
    IF ~r.pushed_at.nil THEN r.pushed_at
    ELSE IF ~r.updated_at.nil THEN r.updated_at
    ELSE IF ~r.created_at.nil THEN r.created_at
    ELSE DatetimeMin

\* build_tags has returned a tag list.
Grouped == tagPc = "done" /\ grouped.exc = ""

\* C12: the tag list build_tags returns is sorted by the lower-cased tag
\* name, and the members of every tag are sorted by sort_key descending,
\* sort_key being the first present of the pushed, updated and created
\* timestamps, else the minimum sentinel.
C12_TagsAndMembersSorted ==
    Grouped =>
        /\ \A i, j \in DOMAIN grouped.tags :
              i < j => ~StrLess(StrLower(grouped.tags[j].name.s),
                                StrLower(grouped.tags[i].name.s))
        /\ \A i \in DOMAIN grouped.tags :
              \A a, b \in DOMAIN grouped.tags[i].repos :
                 a < b => ~DtLess(FirstPresent(grouped.tags[i].repos[a]),
                                  FirstPresent(grouped.tags[i].repos[b]))
        /\ \A i \in DOMAIN entities : entities[i].sort_key = FirstPresent(entities[i])

\* build_tags has returned for entities given oldest first: a tag has a
\* newer member that was given after an older one, and two tags are in an
\* order that their names as written would not have.
C12_Witness ==
    /\ Grouped
    /\ \E i \in DOMAIN grouped.tags :
          \E a, b \in DOMAIN entities :
             /\ a < b
             /\ grouped.tags[i].name \in Range(entities[a].tags)
             /\ grouped.tags[i].name \in Range(entities[b].tags)
             /\ DtLess(entities[a].sort_key, entities[b].sort_key)
    /\ \E i, j \in DOMAIN grouped.tags :
          i < j /\ StrLess(grouped.tags[j].name.s, grouped.tags[i].name.s)

(***************************************************************************)
(* C13: featured.                                                          *)
(***************************************************************************)
\* build_site has computed featured.
Selected ==
    /\ pc \notin {"idle", "load", "sort", "select"}
    /\ ~(pc = "failed" /\ exc.at \in {"load", "sort", "select"})

\* The entities whose name is in the fixed pinned-name list.
PinnedPresent == {repos[i] : i \in {k \in DOMAIN repos : repos[k].name \in Range(pinned_order)}}

\* Entity a comes after entity b by star count, then by sort_key.
FewerStars(a, b) ==
    \/ a.stargazers_count < b.stargazers_count
    \/ a.stargazers_count = b.stargazers_count /\ DtLess(a.sort_key, b.sort_key)

\* The smaller of two numbers.
Min(a, b) == IF a < b THEN a ELSE b

\* C13: featured, which the home page is rendered with, is the present
\* pinned entities in the fixed pinned order when there is one, and
\* otherwise the first 3, or all if fewer, of the entities by star count
\* descending, then sort_key descending.
C13_Featured ==
    Selected =>
        /\ PinnedPresent # {} =>
              /\ Range(featured) = PinnedPresent
              /\ \A a, b \in DOMAIN featured :
                    a < b => IndexOf(pinned_order, featured[a].name)
                             < IndexOf(pinned_order, featured[b].name)
        /\ PinnedPresent = {} =>
              /\ Len(featured) = Min(FeaturedMax, Len(repos))
              /\ Range(featured) \subseteq Range(repos)
              /\ \A a, b \in DOMAIN featured :
                    a < b => featured[a] # featured[b]
                             /\ ~FewerStars(featured[a], featured[b])
              /\ \A r \in Range(repos) \ Range(featured) :
                    \A a \in DOMAIN featured : ~FewerStars(featured[a], r)
        /\ Path("", <<>>) \in DOMAIN outdir /\ outdir[Path("", <<>>)].gen = 1
              => outdir[Path("", <<>>)].featured = featured

\* A run has ended with two pinned entities featured in an order that is
\* not the order of repos.
C13_Witness ==
    /\ pc = "done"
    /\ Len(featured) = 2
    /\ PinnedPresent # {}
    /\ featured[1] = repos[2]
    /\ outdir[Path("", <<>>)].featured = featured

\* A run without pinned entities has ended with three of more than three
\* entities featured, the first of them not the first of repos.
C13_WitnessTop ==
    /\ pc = "done"
    /\ PinnedPresent = {}
    /\ Len(repos) > FeaturedMax
    /\ Len(featured) = FeaturedMax
    /\ featured[1] # repos[1]

(***************************************************************************)
(* C7, C8: slugify.                                                        *)
(***************************************************************************)
\* ^[a-z0-9]+(-[a-z0-9]+)*$
MatchesSlugPattern(s) ==
    /\ s # <<>>
    /\ \A i \in DOMAIN s : IsSlugChar(s[i]) \/ s[i] = "-"
    /\ s[1] # "-"
    /\ s[Len(s)] # "-"
    /\ \A i \in 1..(Len(s) - 1) : ~(s[i] = "-" /\ s[i + 1] = "-")

\* str.isalnum() on one character of the alphabet.
IsAlnumChar(c) ==
    c \in Range(LowerAlpha) \cup Range(UpperAlpha) \cup Range(Digits) \cup {"É", "é"}

HasAlnum(s) == \E i \in DOMAIN s : IsAlnumChar(s[i])

\* C7: for every name, slugify returns a string matching
\* ^[a-z0-9]+(-[a-z0-9]+)*$, and exactly "repo" when the name holds no
\* alphanumeric character.
C7_SlugPattern ==
    slugPc # "input" =>
        /\ MatchesSlugPattern(slug)
        /\ (~HasAlnum(value) => slug = <<"r","e","p","o">>)

\* A name with separators at both ends and a doubled separator inside has
\* been slugified, and so has a name without any alphanumeric character.
C7_Witness ==
    /\ slugPc = "slugged"
    /\ value = <<"-", "Z", ".", " ">> \o <<>>
    /\ slug = <<"z">>

C7_WitnessRepo == slugPc = "slugged" /\ value = <<".", "-">> /\ slug = <<"r","e","p","o">>

\* C8: slugify is idempotent: slugify(slugify(s)) = slugify(s).
C8_SlugIdempotent == slugPc = "reslugged" => reslug = slug

\* A name that slugification changes has been slugified twice.
C8_Witness ==
    /\ slugPc = "reslugged"
    /\ value = <<"-", ".", "a", "Z">>
    /\ slug = <<"a", "z">>
    /\ slug # value
====
